---- MODULE Spec2Model ----
(***************************************************************************)
(* Model of the diary bot's event-processing pipeline                      *)
(* (app/tasks/processing.py, app/gemini/client.py), of event creation      *)
(* (app/bot/handlers.py) and of the reminder sweep                         *)
(* (app/tasks/reminders.py, app/utils/timezone.py).                        *)
(*                                                                         *)
(* The relational store, the Redis keys and the work queue are the shared  *)
(* state.  Every database statement (a query, a commit) and every call of  *)
(* an outside service (blob store, provider, chat) is one atomic step; the *)
(* code between two such steps of one task is local to that task and is    *)
(* folded into the next step.  The database itself is reliable: a commit   *)
(* fails only when the unique constraint of the reminders table rejects it.*)
(***************************************************************************)
EXTENDS Integers, Sequences, FiniteSets, TLC

(***************************************************************************)
(* Bounds of the model.                                                    *)
(***************************************************************************)
MaxEvents == 1
MaxJobs == 2

\* Python's None / SQL NULL.
NULL == "NULL"

\* Python truthiness of an Optional[str].
Truthy(s) == s # NULL /\ s # ""

(***************************************************************************)
(* Vocabulary.                                                             *)
(***************************************************************************)
UserIds == {101, 102}

\* Users whose chat messages the pipeline specification follows.
ChatUsers == {101}

\* handlers.py cmd_set_type: the five type commands; /face stores face_photo.
CommandTypes == {"reflection", "mindform", "dream", "drawing", "face_photo"}

\* keyboards.py get_event_type_keyboard: callback data type_<x>.
KeyboardTypes == {"reflection", "mindform", "dream", "drawing", "other"}

\* client.py classify_text_content / classify_image: valid_types.
TextTypes == {"reflection", "dream", "mindform", "drawing", "other"}
ImageTypes == {"mindform", "face_photo", "drawing", "other"}

Kinds == {"transcribe", "ocr", "face"}

\* The required field the client validates on the first attempt.
RequiredField(kind) ==
    IF kind = "transcribe" THEN "text"
    ELSE IF kind = "ocr" THEN "cleaned_text"
    ELSE "dominant_emotion"

FaceFields == {"dominant_emotion", "stress_level_0_10", "confidence", "notes"}

(***************************************************************************)
(* Provider responses.  tag "error": the call raised; "nonjson": the text  *)
(* is not JSON; "obj": a JSON object with the fields has; "list_obj": a    *)
(* JSON array whose first element is an object with the fields has;        *)
(* "list_other": any other JSON array; "scalar": any other JSON value.     *)
(* blank: the text field holds only whitespace; nulls: the fields whose     *)
(* value is the JSON null.                                                 *)
(***************************************************************************)
Resp(tag, has, blank) ==
    [tag |-> tag, has |-> has, blank |-> blank, filled |-> {}, nulls |-> {}]

\* A JSON object whose text field is present and null.
NullText(field) == [Resp("obj", {field}, FALSE) EXCEPT !.nulls = {field}]

FieldChoices(kind) ==
    IF kind = "face" THEN {{}, {"dominant_emotion"}, FaceFields}
    ELSE {{}, {RequiredField(kind)}}

Responses(kind) ==
    {Resp("error", {}, FALSE), Resp("nonjson", {}, FALSE), Resp("list_other", {}, FALSE)}
    \cup {Resp("obj", h, FALSE) : h \in FieldChoices(kind)}
    \cup (IF kind = "face" THEN {Resp("list_obj", FaceFields, FALSE)} ELSE {})
    \cup (IF kind = "transcribe" THEN {Resp("obj", {"text"}, TRUE)} ELSE {})
    \cup (IF kind # "face" THEN {NullText(RequiredField(kind))} ELSE {})

NoResult == Resp("none", {}, FALSE)

IsDict(r) == r.tag = "obj"

\* Error texts (str(e)) the tasks store in processing_error.
ErrDownload == "download failed"
ErrProvider == "provider error"
ErrMissingField == "Missing field in response"
ErrNotIterable == "argument is not iterable"
ErrRepair == "Failed to get valid JSON response from Gemini"
ErrAttribute == "object has no attribute get"
ErrNoneStrip == "NoneType object has no attribute strip"
ErrCommit == "commit failed"
ErrSoftTimeLimit == "SoftTimeLimitExceeded()"

VARIABLES
    users,           \* the users table: a function from the ids of the stored users to rows
    events,          \* the events table: a sequence of rows, the event id is the index
    queue,           \* pipeline jobs submitted to the work queue: records [ev, kind]
    jobs,            \* pipeline task invocations, one per worker slot
    summaries,       \* summaries[e]: entry summaries delivered to the chat for event e
    pending_type,    \* Redis pending_type:<user>
    pending_message, \* Redis pending_message:<user>
    clock,           \* index of the current UTC instant in Instants
    ledger,          \* the reminders table: a sequence of rows
    sweeps,          \* invocations of send_due_reminders, one per worker slot
    sent,            \* sent[k]: reminder notifications delivered for the key k
    overlapped,      \* history: a sweep started while another one was running
    probe,           \* a call of is_time_in_range: its arguments and its result
    answer,          \* a call of a classifier: the provider's response and the result
    inbound,         \* the chat update handled last and the bot's answer to it
    capture,         \* a media capture under way: the handler's position and locals
    confirm          \* photos received and the type-selection callbacks under way

vars ==
    <<users, events, queue, jobs, summaries, pending_type, pending_message, clock,
      ledger, sweeps, sent, overlapped, probe, answer, inbound, capture, confirm>>

pipelineVars == <<queue, jobs, summaries, pending_message>>

reminderVars == <<ledger, sweeps, sent, overlapped>>

timeVars == <<probe, answer, capture, confirm>>

(***************************************************************************)
(* Time (app/utils/timezone.py).  Instants are UTC; a zone is a whole      *)
(* number of hours east of UTC.                                            *)
(***************************************************************************)
TimeOfDay(h, m, s) == [hour |-> h, minute |-> m, second |-> s]

Instant(d, h, m, s) == [day |-> d, hour |-> h, minute |-> m, second |-> s]

Instants ==
    << Instant(1, 21, 59, 59), Instant(1, 22, 0, 0), Instant(1, 22, 4, 59),
       Instant(1, 22, 5, 0), Instant(1, 23, 2, 0) >>

DEFAULT_TIMEZONE == "Europe/Berlin"

ValidZones == {"Europe/Berlin", "UTC"}

UtcOffsetHours(tz) == IF tz = "Europe/Berlin" THEN 1 ELSE 0

get_user_timezone(user_timezone) ==
    IF user_timezone \in ValidZones THEN user_timezone ELSE DEFAULT_TIMEZONE

utc_to_local(utc_dt, tz) ==
    LET h == utc_dt.hour + UtcOffsetHours(tz)
    IN  IF h >= 24
        THEN [utc_dt EXCEPT !.day = @ + 1, !.hour = h - 24]
        ELSE [utc_dt EXCEPT !.hour = h]

\* The date of the instant in UTC, whatever the zone.
get_local_date_Utc(utc_dt, tz) == utc_dt.day

get_local_date(utc_dt, tz) == utc_to_local(utc_dt, tz).day

get_local_time(utc_dt, tz) ==
    LET l == utc_to_local(utc_dt, tz) IN TimeOfDay(l.hour, l.minute, l.second)

\* A window that is closed at its end.
is_time_in_range_Closed(current_time, target_time, window_minutes) ==
    LET current_minutes == current_time.hour * 60 + current_time.minute
        target_minutes == target_time.hour * 60 + target_time.minute
    IN  target_minutes <= current_minutes
        /\ current_minutes <= target_minutes + window_minutes

\* A window that goes on after midnight.
is_time_in_range_Wraps(current_time, target_time, window_minutes) ==
    LET current_minutes == current_time.hour * 60 + current_time.minute
        target_minutes == target_time.hour * 60 + target_time.minute
    IN  ((current_minutes - target_minutes) + 1440) % 1440 < window_minutes

is_time_in_range(current_time, target_time, window_minutes) ==
    LET current_minutes == current_time.hour * 60 + current_time.minute
        target_minutes == target_time.hour * 60 + target_time.minute
        window_start == target_minutes
        window_end == target_minutes + window_minutes
    IN  window_start <= current_minutes /\ current_minutes < window_end

\* No call of is_time_in_range has been made.
NoProbe ==
    [current_time |-> TimeOfDay(0, 0, 0), target_time |-> TimeOfDay(0, 0, 0),
     called |-> FALSE, due |-> FALSE]

(***************************************************************************)
(* Blob keys (app/storage/minio_client.py).  A key is the sequence of the  *)
(* segments its text has between the slashes.                              *)
(***************************************************************************)
\* Python's format 02d for the numbers a date holds.
Pad2(n) == IF n < 10 THEN "0" \o ToString(n) ELSE ToString(n)

generate_s3_key(telegram_user_id, event_id, filename, created_at_utc) ==
    << "raw", ToString(telegram_user_id), ToString(created_at_utc.year),
       Pad2(created_at_utc.month), Pad2(created_at_utc.day), event_id, filename >>

\* The values uuid.uuid4() can return.
Uuids == {"uuid-a", "uuid-b", "uuid-c"}

\* No media capture is under way.  stored holds the keys under which the
\* capture has put a blob in the bucket.
NoCapture ==
    [pc |-> "idle", event_id |-> NULL, s3_key |-> <<>>, row |-> 0, id |-> NULL,
     stored |-> {}]

(***************************************************************************)
(* Type selection on the keyboard (handlers.py callback_set_type).  The    *)
(* bot is one process with one event loop: handlers of different updates   *)
(* interleave at their awaits, and the Redis client is synchronous.        *)
(***************************************************************************)
MaxTaps == 2

MaxPhotos == 2

TapIds == 1..MaxTaps

\* No photo has been received and no callback is under way.
NoConfirm ==
    [photos |-> 0,
     taps |-> [t \in TapIds |->
                 [pc |-> "idle", event_type |-> NULL, pending_msg |-> NULL, row |-> 0]]]

(***************************************************************************)
(* Rows (app/db/models.py).                                                *)
(***************************************************************************)
DefaultUser ==
    [timezone |-> "Europe/Berlin",
     reminder_time_local |-> TimeOfDay(23, 0, 0),
     reminder_required_types |-> <<"reflection", "mindform">>]

get_or_create_user(tbl, telegram_user_id) ==
    IF telegram_user_id \in DOMAIN tbl
    THEN tbl
    ELSE tbl @@ (telegram_user_id :> DefaultUser)

Meta(of, has, filled, classification) ==
    [of |-> of, has |-> has, filled |-> filled, classification |-> classification]

NoMeta == Meta(NULL, {}, {}, NULL)

\* A creation that leaves the column's default in place.
InitialStatus_Default(text_content) == "queued"

\* handlers.py line 119: "ok" if text_content else "queued".
InitialStatus(text_content) ==
    IF Truthy(text_content) THEN "ok" ELSE "queued"

create_event_from_message(tbl, now_utc, uid, event_type, source_type, s3_key, mime_type, text_content) ==
    [telegram_user_id |-> uid,
     event_type |-> event_type,
     source_type |-> source_type,
     created_at_utc |-> now_utc,
     local_date |-> get_local_date(now_utc, get_user_timezone(tbl[uid].timezone)),
     raw_file_s3_key |-> s3_key,
     raw_file_mime |-> mime_type,
     text_content |-> text_content,
     processing_status |-> InitialStatus(text_content),
     processing_error |-> NULL,
     derived_meta |-> NoMeta]

EventIds == 1..Len(events)

(***************************************************************************)
(* Enrichment client (app/gemini/client.py).  Each operation is given the  *)
(* provider's response and yields what the method does with it: return a   *)
(* value, raise with a message, or go to the repair retry.                 *)
(***************************************************************************)
Out(act, val, msg) == [act |-> act, val |-> val, msg |-> msg]

\* json.loads(response.text) succeeds.
ParsesAsJson(r) == r.tag \in {"obj", "list_obj", "list_other", "scalar"}

\* The validation shared by transcribe_audio and ocr_handwriting:
\* if "<field>" not in result: raise ValueError.
validate_field(r, field) ==
    IF r.tag = "scalar" THEN Out("raise", NoResult, ErrNotIterable)
    ELSE IF r.tag # "obj" \/ field \notin r.has
         THEN Out("raise", NoResult, ErrMissingField)
    ELSE Out("return", r, NULL)

\* A transcription that asks again after a provider error as well.
transcribe_audio_RetriesErrors(r) ==
    IF r.tag = "error" \/ ~ParsesAsJson(r) THEN Out("retry", NoResult, NULL)
    ELSE validate_field(r, "text")

transcribe_audio(r) ==
    IF r.tag = "error" THEN Out("raise", NoResult, ErrProvider)
    ELSE IF ~ParsesAsJson(r) THEN Out("retry", NoResult, NULL)
    ELSE validate_field(r, "text")

ocr_handwriting(r) ==
    IF r.tag = "error" THEN Out("raise", NoResult, ErrProvider)
    ELSE IF ~ParsesAsJson(r) THEN Out("retry", NoResult, NULL)
    ELSE validate_field(r, "cleaned_text")

analyze_face(r) ==
    IF r.tag = "error" THEN Out("raise", NoResult, ErrProvider)
    ELSE IF ~ParsesAsJson(r) THEN Out("retry", NoResult, NULL)
    ELSE LET result == IF r.tag \in {"obj", "list_obj"} THEN r.has ELSE {}
         IN  Out("return",
                 [tag |-> "obj", has |-> FaceFields, blank |-> FALSE,
                  filled |-> FaceFields \ result, nulls |-> {}],
                 NULL)

_retry_with_repair(r) ==
    IF ParsesAsJson(r) THEN Out("return", r, NULL)
    ELSE Out("raise", NoResult, ErrRepair)

first_attempt(kind, r) ==
    IF kind = "transcribe" THEN transcribe_audio(r)
    ELSE IF kind = "ocr" THEN ocr_handwriting(r)
    ELSE analyze_face(r)

\* The mime type of the first provider call: the task passes
\* event.raw_file_mime or "audio/ogg" to transcribe_audio; ocr_handwriting and
\* analyze_face send "image/jpeg".
FirstCallMime(kind, raw_file_mime) ==
    IF kind = "transcribe"
    THEN (IF Truthy(raw_file_mime) THEN raw_file_mime ELSE "audio/ogg")
    ELSE "image/jpeg"

\* A retry that always declares an image.
RetryCallMime_Image(kind, raw_file_mime) == "image/jpeg"

\* The mime type handed to _retry_with_repair.
RetryCallMime(kind, raw_file_mime) ==
    IF kind = "transcribe"
    THEN (IF Truthy(raw_file_mime) THEN raw_file_mime ELSE "audio/ogg")
    ELSE "image/jpeg"

(***************************************************************************)
(* Classification.  A response is the provider's answer to a               *)
(* classification prompt: event_type NULL is a missing key, confidence -1  *)
(* a missing key; confidences are in percent.                              *)
(***************************************************************************)
ClassResp(tag, event_type, confidence) ==
    [tag |-> tag, event_type |-> event_type, confidence |-> confidence]

ClassResponses(tags) ==
    {ClassResp("error", NULL, -1), ClassResp("nonjson", NULL, -1)}
    \cup {ClassResp("obj", t, c) : t \in tags \cup {"bogus", NULL}, c \in {30, 90}}

Classification(event_type, confidence) ==
    [event_type |-> event_type, confidence |-> confidence]

\* A classifier that hands the provider's type on as it is.
classify_text_content_Unchecked(c) ==
    IF c.tag # "obj" THEN Classification("reflection", 30)
    ELSE Classification(IF c.event_type = NULL THEN "reflection" ELSE c.event_type,
                        IF c.confidence = -1 THEN 50 ELSE c.confidence)

\* client.py lines 241-298.  Every exception (the provider's error, text that
\* is not JSON, JSON that is not an object) ends in the fallback answer.
classify_text_content(c) ==
    IF c.tag # "obj" THEN Classification("reflection", 30)
    ELSE LET event_type == IF c.event_type = NULL THEN "reflection" ELSE c.event_type
         IN  Classification(
                 IF event_type \in TextTypes THEN event_type ELSE "reflection",
                 IF c.confidence = -1 THEN 50 ELSE c.confidence)

\* client.py lines 300-358.
classify_image(c) ==
    IF c.tag # "obj" THEN Classification("other", 30)
    ELSE LET event_type == IF c.event_type = NULL THEN "other" ELSE c.event_type
         IN  Classification(
                 IF event_type \in ImageTypes THEN event_type ELSE "other",
                 IF c.confidence = -1 THEN 50 ELSE c.confidence)

\* No classifier has been called.
NoAnswer ==
    [op |-> "none", resp |-> ClassResp("error", NULL, -1), called |-> FALSE,
     out |-> Classification("none", -1)]

\* The classification answers the model draws from.
TextAnswers == ClassResponses({"reflection", "dream", "other"})
ImageAnswers == ClassResponses({"mindform", "face_photo", "drawing"})

(***************************************************************************)
(* Pipeline tasks (app/tasks/processing.py).  The three tasks share their  *)
(* shape; kind selects the client operation and the result handling.      *)
(***************************************************************************)
IdleJob ==
    [pc |-> "idle", ev |-> 0, kind |-> "none", invoked_on |-> "none",
     file |-> NULL, calls |-> <<>>, result |-> NoResult, exc |-> NULL,
     fetched |-> FALSE, outcome |-> "none", summary |-> "none", classified |-> "none",
     limit |-> "none", died_at |-> "none", rotation |-> "none"]

JobIds == 1..MaxJobs

\* A task that has returned: its locals are gone, what it did is kept.
Returned(job, outcome, summary) ==
    [IdleJob EXCEPT !.pc = "done", !.ev = job.ev, !.kind = job.kind,
                    !.invoked_on = job.invoked_on, !.exc = job.exc,
                    !.fetched = job.fetched, !.outcome = outcome, !.summary = summary,
                    !.classified = job.classified, !.limit = job.limit]

\* A guard that lets every loaded event through.
GuardPasses_Open(processing_status) == TRUE

\* Lines 30-32: the task goes on only when the loaded status is queued.
GuardPasses(processing_status) == processing_status = "queued"

\* Lines 34-36: event.processing_status = "processing"; session.commit().
MarkedProcessing(row) == [row EXCEPT !.processing_status = "processing"]

\* A failure handler that does not store the message.
FailedRow_NoMessage(row, msg) == [row EXCEPT !.processing_status = "failed"]

\* Lines 86-90: the failure handler's update.
FailedRow(row, msg) ==
    [row EXCEPT !.processing_status = "failed", !.processing_error = msg]

Call(op, file, mime, prompt, resp) ==
    [op |-> op, file |-> file, mime |-> mime, prompt |-> prompt, resp |-> resp]

\* Lines 47-74 of transcribe_audio_task; c is the provider's answer to the
\* classification of the transcript.
transcribe_result(row, result, c) ==
    LET transcription_text ==
            IF "text" \in result.has
            THEN (IF result.blank THEN " " ELSE "transcript")
            ELSE ""
        stripped == transcription_text \notin {"", " "}
        classification_result == classify_text_content(c)
    IN  [row EXCEPT
            !.event_type = IF stripped THEN classification_result.event_type ELSE @,
            !.text_content = transcription_text,
            !.derived_meta =
                Meta("transcribe", result.has, {},
                     IF stripped THEN classification_result.event_type ELSE NULL),
            !.processing_status = "ok"]

\* An OCR that sets the entry type as well.
ocr_result_Retypes(row, result) ==
    [row EXCEPT
        !.event_type = "reflection",
        !.text_content = IF "cleaned_text" \in result.has THEN "ocr text" ELSE "",
        !.derived_meta = Meta("ocr", result.has, {}, NULL),
        !.processing_status = "ok"]

\* Lines 133-143 of ocr_handwriting_task; result.get("cleaned_text", "")
\* is None when the key is present with the value null.
ocr_result(row, result) ==
    [row EXCEPT
        !.text_content = IF "cleaned_text" \in result.nulls THEN NULL
                         ELSE IF "cleaned_text" \in result.has THEN "ocr text" ELSE "",
        !.derived_meta = Meta("ocr", result.has, {}, NULL),
        !.processing_status = "ok"]

\* Lines 202-221 of analyze_face_task.
face_result(row, result) ==
    [row EXCEPT
        !.text_content = "face summary",
        !.derived_meta = Meta("face", result.has, result.filled, NULL),
        !.processing_status = "ok"]

task_result(kind, row, result, c) ==
    IF kind = "transcribe" THEN transcribe_result(row, result, c)
    ELSE IF kind = "ocr" THEN ocr_result(row, result)
    ELSE face_result(row, result)

\* A worker takes a job from the queue.  Delivery is at least once: the
\* message stays available, so the same job can be delivered again.
Start(j) ==
    /\ jobs[j].pc = "idle"
    /\ \A i \in 1..(j - 1) : jobs[i].pc # "idle"
    /\ \E msg \in queue :
          jobs' = [jobs EXCEPT ![j] =
                      [IdleJob EXCEPT !.pc = "load", !.ev = msg.ev, !.kind = msg.kind,
                                      !.invoked_on = events[msg.ev].processing_status]]
    /\ UNCHANGED <<users, events, queue, summaries, pending_type, pending_message, clock>>
    /\ UNCHANGED <<reminderVars, timeVars>>
    /\ UNCHANGED inbound

\* Lines 24-32: load the event; return when it is missing or not queued.
Load(j) ==
    /\ jobs[j].pc = "load"
    /\ jobs' = [jobs EXCEPT ![j] =
          IF jobs[j].ev \notin EventIds
          THEN Returned(@, "not_found", "none")
          ELSE IF ~GuardPasses(events[jobs[j].ev].processing_status)
          THEN Returned(@, "aborted", "none")
          ELSE [@ EXCEPT !.pc = "mark"]]
    /\ UNCHANGED <<users, events, queue, summaries, pending_type, pending_message, clock>>
    /\ UNCHANGED <<reminderVars, timeVars>>
    /\ UNCHANGED inbound

\* Lines 34-36.
MarkProcessing(j) ==
    /\ jobs[j].pc = "mark"
    /\ events' = [events EXCEPT ![jobs[j].ev] = MarkedProcessing(@)]
    /\ jobs' = [jobs EXCEPT ![j].pc = "download"]
    /\ UNCHANGED <<users, queue, summaries, pending_type, pending_message, clock>>
    /\ UNCHANGED <<reminderVars, timeVars>>
    /\ UNCHANGED inbound

\* What auto_rotate_image can meet: an image without orientation metadata,
\* an image with it whose copy is saved, or an exception while the image is
\* opened, its metadata read, the image rotated or the copy saved.
RotationOutcomes == {"no_exif", "saved", "raised"}

ErrRotate == "cannot identify image file"

\* A normalisation that lets its exception out.
auto_rotate_image_Raises(image_path, seen) ==
    IF seen = "saved" THEN Out("return", "rotated_" \o image_path, NULL)
    ELSE IF seen = "raised" THEN Out("raise", NULL, ErrRotate)
    ELSE Out("return", image_path, NULL)

\* file_utils.py lines 25-49: the rotated copy when it was saved, the
\* original otherwise; except Exception drops whatever was raised.
auto_rotate_image(image_path, seen) ==
    IF seen = "saved" THEN Out("return", "rotated_" \o image_path, NULL)
    ELSE Out("return", image_path, NULL)

\* Lines 38-41 (and 126-127, 195-196): download the blob; the image tasks
\* then call auto_rotate_image and go on with the path it returns.
Download(j) ==
    /\ jobs[j].pc = "download"
    /\ \E ok \in BOOLEAN,
          seen \in (IF jobs[j].kind = "transcribe" THEN {"none"} ELSE RotationOutcomes) :
          LET out == IF jobs[j].kind = "transcribe"
                     THEN Out("return", "temp", NULL)
                     ELSE auto_rotate_image("temp", seen)
          IN  jobs' = [jobs EXCEPT ![j] =
                  IF ~ok
                  THEN [@ EXCEPT !.pc = "handler", !.exc = ErrDownload]
                  ELSE IF out.act = "raise"
                  THEN [@ EXCEPT !.pc = "handler", !.fetched = TRUE, !.rotation = seen,
                                 !.exc = out.msg]
                  ELSE [@ EXCEPT !.pc = "call1", !.fetched = TRUE, !.rotation = seen,
                                 !.file = out.val]]
    /\ UNCHANGED <<users, events, queue, summaries, pending_type, pending_message, clock>>
    /\ UNCHANGED <<reminderVars, timeVars>>
    /\ UNCHANGED inbound

\* The client operation's first provider call.
EnrichFirst(j) ==
    /\ jobs[j].pc = "call1"
    /\ \E r \in Responses(jobs[j].kind) :
          LET job == jobs[j]
              out == first_attempt(job.kind, r)
              call == Call(job.kind, job.file,
                           FirstCallMime(job.kind, events[job.ev].raw_file_mime),
                           "full", r)
          IN  jobs' = [jobs EXCEPT ![j] =
                  [@ EXCEPT !.calls = Append(@, call),
                            !.pc = IF out.act = "retry" THEN "call2"
                                   ELSE IF out.act = "raise" THEN "handler"
                                   ELSE "result",
                            !.result = out.val,
                            !.exc = out.msg]]
    /\ UNCHANGED <<users, events, queue, summaries, pending_type, pending_message, clock>>
    /\ UNCHANGED <<reminderVars, timeVars>>
    /\ UNCHANGED inbound

\* _retry_with_repair: the one provider call with the repair prompt.
EnrichRetry(j) ==
    /\ jobs[j].pc = "call2"
    /\ \E r \in Responses(jobs[j].kind) :
          LET job == jobs[j]
              out == _retry_with_repair(r)
              call == Call(job.kind, job.file,
                           RetryCallMime(job.kind, events[job.ev].raw_file_mime),
                           "repair", r)
          IN  jobs' = [jobs EXCEPT ![j] =
                  [@ EXCEPT !.calls = Append(@, call),
                            !.pc = IF out.act = "raise" THEN "handler" ELSE "result",
                            !.result = out.val,
                            !.exc = out.msg]]
    /\ UNCHANGED <<users, events, queue, summaries, pending_type, pending_message, clock>>
    /\ UNCHANGED <<reminderVars, timeVars>>
    /\ UNCHANGED inbound

\* The transcript is classified when it is not blank (lines 47-50).
IsClassified(kind, result) ==
    kind = "transcribe" /\ "text" \in result.has /\ ~result.blank
    /\ "text" \notin result.nulls

\* The task's handling of the client's result up to the commit of status ok.
\* result.get(...) raises AttributeError when the result is not a dict, and
\* so does transcription_text.strip() (line 50) when the text is None.
\* classified keeps how the provider answered the classification.
HandleResult(j) ==
    /\ jobs[j].pc = "result"
    /\ IF ~IsDict(jobs[j].result)
       THEN /\ jobs' = [jobs EXCEPT ![j].pc = "handler", ![j].exc = ErrAttribute]
            /\ UNCHANGED events
       ELSE IF jobs[j].kind = "transcribe" /\ "text" \in jobs[j].result.nulls
       THEN /\ jobs' = [jobs EXCEPT ![j].pc = "handler", ![j].exc = ErrNoneStrip]
            /\ UNCHANGED events
       ELSE \E c \in (IF jobs[j].kind = "transcribe" THEN TextAnswers
                       ELSE {ClassResp("error", NULL, -1)}) :
            /\ events' = [events EXCEPT ![jobs[j].ev] =
                             task_result(jobs[j].kind, @, jobs[j].result, c)]
            /\ jobs' = [jobs EXCEPT ![j].pc = "notify",
                                    ![j].classified =
                                        IF IsClassified(jobs[j].kind, jobs[j].result)
                                        THEN c.tag ELSE "none"]
    /\ UNCHANGED <<users, queue, summaries, pending_type, pending_message, clock>>
    /\ UNCHANGED <<reminderVars, timeVars>>
    /\ UNCHANGED inbound

\* A notification whose failure is treated as a failure of the task.
Notify_MarksFailed(j) ==
    /\ jobs[j].pc = "notify"
    /\ \E delivered \in BOOLEAN :
          IF ~Truthy(events[jobs[j].ev].text_content)
          THEN /\ jobs' = [jobs EXCEPT ![j] = Returned(@, "ok", "skipped")]
               /\ UNCHANGED <<summaries, events>>
          ELSE IF delivered
          THEN /\ jobs' = [jobs EXCEPT ![j] = Returned(@, "ok", "sent")]
               /\ summaries' = [summaries EXCEPT ![jobs[j].ev] = @ + 1]
               /\ UNCHANGED events
          ELSE /\ jobs' = [jobs EXCEPT ![j] = Returned(@, "failed", "failed")]
               /\ events' = [events EXCEPT ![jobs[j].ev] = FailedRow(@, "send failed")]
               /\ UNCHANGED summaries
    /\ UNCHANGED <<users, queue, pending_type, pending_message, clock>>
    /\ UNCHANGED <<reminderVars, timeVars>>
    /\ UNCHANGED inbound

\* Lines 76-80 and entry_summary.send_entry_summary: best effort.
Notify(j) ==
    /\ jobs[j].pc = "notify"
    /\ \E delivered \in BOOLEAN :
          IF ~Truthy(events[jobs[j].ev].text_content)
          THEN /\ jobs' = [jobs EXCEPT ![j] = Returned(@, "ok", "skipped")]
               /\ UNCHANGED summaries
          ELSE IF delivered
          THEN /\ jobs' = [jobs EXCEPT ![j] = Returned(@, "ok", "sent")]
               /\ summaries' = [summaries EXCEPT ![jobs[j].ev] = @ + 1]
          ELSE /\ jobs' = [jobs EXCEPT ![j] = Returned(@, "ok", "failed")]
               /\ UNCHANGED summaries
    /\ UNCHANGED <<users, events, queue, pending_type, pending_message, clock>>
    /\ UNCHANGED <<reminderVars, timeVars>>
    /\ UNCHANGED inbound

\* Lines 82-92: the except branch of the task.
HandleFailure(j) ==
    /\ jobs[j].pc = "handler"
    /\ events' = [events EXCEPT ![jobs[j].ev] = FailedRow(@, jobs[j].exc)]
    /\ jobs' = [jobs EXCEPT ![j] = Returned(@, "failed", "none")]
    /\ UNCHANGED <<users, queue, summaries, pending_type, pending_message, clock>>
    /\ UNCHANGED <<reminderVars, timeVars>>
    /\ UNCHANGED inbound

(***************************************************************************)
(* Time limits (app/tasks/celery_app.py lines 21-22).  After                *)
(* task_soft_time_limit seconds the worker raises SoftTimeLimitExceeded, an *)
(* Exception, inside the running task; after task_time_limit seconds it    *)
(* kills the process that runs the task.                                   *)
(***************************************************************************)
\* The task is inside its try block.
InTaskBody(job) ==
    job.pc \in {"load", "mark", "download", "call1", "call2", "result", "notify", "handler"}

\* A soft limit that ends the task on the spot, as the hard limit does.
SoftLimitRaised_Kills(job, swallowed) ==
    [Returned(job, "killed", "none") EXCEPT !.limit = "soft"]

\* Where SoftTimeLimitExceeded goes when it is raised at the job's position.
\* In _retry_with_repair it is wrapped (client.py 237-239); in
\* classify_text_content (296-298), around send_entry_summary (processing.py
\* 78-80) and in the except branch (91-92) it is caught and dropped
\* (swallowed: the raise falls into the classification); in
\* auto_rotate_image (file_utils.py 45-47) it is dropped as well and the
\* task goes on with the original image; elsewhere it reaches the task's
\* except branch.
SoftLimitRaised(job, swallowed) ==
    IF job.pc = "notify"
    THEN [Returned(job, "ok", "failed") EXCEPT !.limit = "soft"]
    ELSE IF job.pc = "handler"
    THEN [Returned(job, "failed", "none") EXCEPT !.limit = "soft"]
    ELSE IF job.pc = "result" /\ IsDict(job.result) /\ IsClassified(job.kind, job.result)
            /\ swallowed
    THEN [job EXCEPT !.limit = "soft"]
    ELSE IF job.pc = "download" /\ job.kind # "transcribe" /\ swallowed
    THEN [job EXCEPT !.limit = "soft", !.pc = "call1", !.fetched = TRUE,
                     !.rotation = "raised",
                     !.file = auto_rotate_image("temp", "raised").val]
    ELSE [job EXCEPT !.limit = "soft", !.pc = "handler",
                     !.exc = IF job.pc = "call2" THEN ErrRepair ELSE ErrSoftTimeLimit]

\* task_soft_time_limit=240: the exception is raised once, wherever the task
\* is.
SoftTimeLimit(j) ==
    /\ InTaskBody(jobs[j])
    /\ jobs[j].limit = "none"
    /\ \E swallowed \in BOOLEAN :
          jobs' = [jobs EXCEPT ![j] = SoftLimitRaised(@, swallowed)]
    /\ UNCHANGED <<users, events, queue, summaries, pending_type, pending_message, clock>>
    /\ UNCHANGED <<reminderVars, timeVars>>
    /\ UNCHANGED inbound

\* task_time_limit=300: the process is killed; no except or finally branch
\* of the task runs.
HardTimeLimit(j) ==
    /\ InTaskBody(jobs[j])
    /\ jobs' = [jobs EXCEPT ![j] = [Returned(@, "killed", "none") EXCEPT !.limit = "hard"]]
    /\ UNCHANGED <<users, events, queue, summaries, pending_type, pending_message, clock>>
    /\ UNCHANGED <<reminderVars, timeVars>>
    /\ UNCHANGED inbound

(***************************************************************************)
(* Crashes.  The process that runs a task can die at any point of the      *)
(* task; no except or finally branch runs, and the job is not delivered    *)
(* again on that account (the worker acknowledges a job when it starts it).*)
(***************************************************************************)
\* What a crash leaves in the events table: what was committed.
Crashed(tbl, ev) == tbl

Crash(j) ==
    /\ InTaskBody(jobs[j])
    /\ jobs' = [jobs EXCEPT ![j] =
                   [Returned(jobs[j], "crashed", "none") EXCEPT !.died_at = jobs[j].pc]]
    /\ events' = Crashed(events, jobs[j].ev)
    /\ UNCHANGED <<users, queue, summaries, pending_type, pending_message, clock>>
    /\ UNCHANGED <<reminderVars, timeVars>>
    /\ UNCHANGED inbound

(***************************************************************************)
(* Chat handlers (app/bot/handlers.py).  Each handler is one step.  The    *)
(* chat is followed until the events table holds MaxEvents rows (ChatOpen).*)
(***************************************************************************)
ChatOpen == Len(events) < MaxEvents

\* The job a stored photo of the given type is submitted to, if any
\* (handle_photo lines 665-682, callback_set_type lines 383-400).
PhotoJobs(ev, event_type) ==
    IF event_type = "mindform" THEN {[ev |-> ev, kind |-> "ocr"]}
    ELSE IF event_type = "face_photo" THEN {[ev |-> ev, kind |-> "face"]}
    ELSE {}

\* No update has been handled.
NoInbound == [seq |-> 0, from |-> 0, kind |-> "none", arg |-> NULL, reply |-> "none"]

\* The update a handler was called with and the last answer it asked the
\* chat to send; seq tells an update from the one before it.
Received(u, kind, arg, reply) ==
    [seq |-> 1 - inbound.seq, from |-> u, kind |-> kind, arg |-> arg, reply |-> reply]

\* cmd_set_type: /reflection, /mindform, /dream, /drawing, /face.
cmd_set_type(u) ==
    /\ ChatOpen
    /\ \E event_type \in CommandTypes :
          pending_type' = [pending_type EXCEPT ![u] = event_type]
    /\ inbound' = Received(u, "command", NULL, "type_set")
    /\ UNCHANGED <<users, events, queue, jobs, summaries, pending_message, clock>>
    /\ UNCHANGED <<reminderVars, timeVars>>

\* The Redis keys carry a time to live.
ExpirePending(u) ==
    /\ ChatOpen
    /\ Truthy(pending_type[u]) \/ Truthy(pending_message[u])
    /\ \/ pending_type' = [pending_type EXCEPT ![u] = NULL] /\ UNCHANGED pending_message
       \/ pending_message' = [pending_message EXCEPT ![u] = NULL] /\ UNCHANGED pending_type
    /\ UNCHANGED <<users, events, queue, jobs, summaries, clock>>
    /\ UNCHANGED <<reminderVars, timeVars>>
    /\ UNCHANGED inbound

\* handle_text: a text message.  raised is an exception inside the try block
\* of the classification (lines 447-472): the handler asks for the type and
\* returns.
handle_text(u) ==
    /\ ChatOpen
    /\ \E c \in TextAnswers, raised \in BOOLEAN :
       LET pending == pending_type[u]
           classification == classify_text_content(c)
           chosen == IF Truthy(pending) THEN pending ELSE classification.event_type
           ask == /\ ~Truthy(pending)
                  /\ (classification.confidence < 60 \/ classification.event_type = "other")
           tbl == get_or_create_user(users, u)
       IN  IF ~Truthy(pending) /\ raised
           THEN /\ inbound' = Received(u, "text", NULL, "ask_type")
                /\ UNCHANGED <<users, events, queue, jobs, summaries, pending_type,
                               pending_message, clock>>
           ELSE IF ask
           THEN /\ pending_type' = [pending_type EXCEPT ![u] = classification.event_type]
                /\ inbound' = Received(u, "text", NULL, "confirm_type")
                /\ UNCHANGED <<users, events, queue, jobs, summaries, pending_message, clock>>
           ELSE /\ users' = tbl
                /\ events' = Append(events,
                      create_event_from_message(tbl, Instants[clock], u, chosen, "text",
                                                NULL, NULL, "user text"))
                /\ pending_type' = [pending_type EXCEPT ![u] = NULL]
                /\ inbound' = Received(u, "text", NULL, "saved")
                /\ UNCHANGED <<queue, jobs, summaries, pending_message, clock>>
    /\ UNCHANGED <<reminderVars, timeVars>>

\* handle_voice: a voice message; stored is whether the download from the
\* chat and the upload to the blob store succeeded.
handle_voice(u) ==
    /\ ChatOpen
    /\ \E stored \in BOOLEAN :
       LET pending == IF Truthy(pending_type[u]) THEN pending_type[u] ELSE "reflection"
           tbl == get_or_create_user(users, u)
       IN  IF ~stored
           THEN /\ inbound' = Received(u, "voice", NULL, "error")
                /\ UNCHANGED <<users, events, queue, jobs, summaries, pending_type,
                               pending_message, clock>>
           ELSE /\ users' = tbl
                /\ events' = Append(events,
                      create_event_from_message(tbl, Instants[clock], u, pending, "voice",
                                                "voice key", "audio/ogg", NULL))
                /\ queue' = queue \cup {[ev |-> Len(events) + 1, kind |-> "transcribe"]}
                /\ inbound' = Received(u, "voice", NULL, "saved")
                /\ UNCHANGED <<jobs, summaries, pending_type, pending_message, clock>>
    /\ UNCHANGED <<reminderVars, timeVars>>

\* handle_photo: a photo message.
handle_photo(u) ==
    /\ ChatOpen
    /\ \E c \in ImageAnswers, stored \in BOOLEAN :
       LET pending == pending_type[u]
           classification == classify_image(c)
           chosen == IF Truthy(pending) THEN pending ELSE classification.event_type
           ask == ~Truthy(pending) /\ classification.confidence < 60
           tbl == get_or_create_user(users, u)
       IN  IF ask
           THEN /\ pending_message' = [pending_message EXCEPT ![u] = "photo"]
                /\ pending_type' = [pending_type EXCEPT ![u] = classification.event_type]
                /\ inbound' = Received(u, "photo", NULL, "confirm_type")
                /\ UNCHANGED <<users, events, queue, jobs, summaries, clock>>
           ELSE IF ~stored
           THEN /\ inbound' = Received(u, "photo", NULL, "error")
                /\ UNCHANGED <<users, events, queue, jobs, summaries, pending_type,
                               pending_message, clock>>
           ELSE /\ users' = tbl
                /\ events' = Append(events,
                      create_event_from_message(tbl, Instants[clock], u, chosen, "photo",
                                                "photo key", "image/jpeg", NULL))
                /\ queue' = queue \cup PhotoJobs(Len(events) + 1, chosen)
                /\ inbound' = Received(u, "photo", NULL, "saved")
                /\ UNCHANGED <<jobs, summaries, pending_type, pending_message, clock>>
    /\ UNCHANGED <<reminderVars, timeVars>>

\* callback_set_type: a button of the type keyboard.
callback_set_type(u) ==
    /\ ChatOpen
    /\ \E event_type \in KeyboardTypes, stored \in BOOLEAN :
       LET tbl == get_or_create_user(users, u)
       IN  IF event_type = "other"
           THEN /\ inbound' = Received(u, "button", NULL, "use_commands")
                /\ UNCHANGED <<users, events, queue, jobs, summaries, pending_type,
                               pending_message, clock>>
           ELSE /\ pending_type' = [pending_type EXCEPT ![u] = event_type]
                /\ IF pending_message[u] = "photo"
                   THEN /\ pending_message' = [pending_message EXCEPT ![u] = NULL]
                        /\ IF ~stored
                           THEN /\ inbound' = Received(u, "button", NULL, "error")
                                /\ UNCHANGED <<users, events, queue>>
                           ELSE /\ users' = tbl
                                /\ events' = Append(events,
                                      create_event_from_message(
                                          tbl, Instants[clock], u, event_type, "photo",
                                          "photo key", "image/jpeg", NULL))
                                /\ queue' = queue \cup PhotoJobs(Len(events) + 1, event_type)
                                /\ inbound' = Received(u, "button", NULL, "saved")
                   ELSE /\ inbound' = Received(u, "button", NULL, "type_set")
                        /\ UNCHANGED <<users, events, queue, pending_message>>
                /\ UNCHANGED <<jobs, summaries, clock>>
    /\ UNCHANGED <<reminderVars, timeVars>>

\* A check that accepts every name.
ZoneInfoValid_Any(new_tz) == TRUE

\* ZoneInfo(new_tz) returns for the names of the zone database and raises for
\* every other string.
ZoneInfoValid(new_tz) == new_tz \in ValidZones

\* The arguments of /timezone: names ZoneInfo accepts, one it rejects, and
\* NULL for the command without an argument.
TimezoneArgs == ValidZones \cup {"Mars/Olympus", NULL}

\* cmd_timezone: /timezone [name].  The answer to a stored change is sent
\* inside the try block: when sending it raises, the except branch answers
\* that the timezone is invalid.
cmd_timezone(u) ==
    /\ \E new_tz \in TimezoneArgs, answered \in BOOLEAN :
       LET tbl == get_or_create_user(users, u)
       IN  IF new_tz = NULL
           THEN /\ users' = tbl
                /\ inbound' = Received(u, "timezone", new_tz, "tz_current")
           ELSE IF ZoneInfoValid(new_tz)
           THEN /\ users' = [tbl EXCEPT ![u].timezone = new_tz]
                /\ inbound' = Received(u, "timezone", new_tz,
                                       IF answered THEN "tz_set" ELSE "tz_invalid")
           ELSE /\ users' = tbl
                /\ inbound' = Received(u, "timezone", new_tz, "tz_invalid")
    /\ UNCHANGED <<events, clock, pending_type>>
    /\ UNCHANGED <<pipelineVars, reminderVars, timeVars>>

(***************************************************************************)
(* The reminder sweep (app/tasks/reminders.py).  A sweep is followed by    *)
(* database statement: each query, the delivery and the commit are steps.  *)
(***************************************************************************)
MaxSweeps == 2

SweepIds == 1..MaxSweeps

ReminderTypes == {"reflection", "mindform"}

Dates == {1, 2}

Keys == UserIds \X Dates \X ReminderTypes

\* Line 47: window_minutes=5.
WindowMinutes == 5

IdleSweep ==
    [pc |-> "idle", now_utc |-> 0, todo |-> <<>>, types |-> <<>>, local_date |-> 0,
     broken |-> FALSE]

\* Line 36: session.query(User).all(), the stored users by id.
RECURSIVE UsersInOrder(_)
UsersInOrder(ids) ==
    IF ids = {} THEN <<>>
    ELSE LET u == CHOOSE x \in ids : \A y \in ids : x <= y
         IN  <<u>> \o UsersInOrder(ids \ {u})

\* The key of the iteration a sweep is in.
KeyOf(sw) == <<Head(sw.todo), sw.local_date, Head(sw.types)>>

\* A query that finds no reminder.
existing_reminder_None(tbl, key) == FALSE

\* Lines 53-61: the query for a reminder of the key.
existing_reminder(tbl, key) ==
    \E i \in 1..Len(tbl) :
        /\ tbl[i].telegram_user_id = key[1]
        /\ tbl[i].local_date = key[2]
        /\ tbl[i].event_type = key[3]

\* A query that finds no event.
event_exists_None(tbl, key) == FALSE

\* A query that counts finished events only.
event_exists_OkOnly(tbl, key) ==
    \E i \in 1..Len(tbl) :
        /\ tbl[i].telegram_user_id = key[1]
        /\ tbl[i].local_date = key[2]
        /\ tbl[i].event_type = key[3]
        /\ tbl[i].processing_status = "ok"

\* Lines 67-75: the query for an event of the key.
event_exists(tbl, key) ==
    \E i \in 1..Len(tbl) :
        /\ tbl[i].telegram_user_id = key[1]
        /\ tbl[i].local_date = key[2]
        /\ tbl[i].event_type = key[3]

\* Lines 104-109.
\* A row that is written as acknowledged.
ReminderRow_Ack(key) ==
    [telegram_user_id |-> key[1], local_date |-> key[2], event_type |-> key[3],
     status |-> "ack"]

ReminderRow(key) ==
    [telegram_user_id |-> key[1], local_date |-> key[2], event_type |-> key[3],
     status |-> "sent"]

\* A table without the constraint.
UniqueViolation_Off(tbl, row) == FALSE

\* models.py lines 106-111: uq_reminder_user_date_type rejects the insert.
UniqueViolation(tbl, row) ==
    \E i \in 1..Len(tbl) :
        /\ tbl[i].telegram_user_id = row.telegram_user_id
        /\ tbl[i].local_date = row.local_date
        /\ tbl[i].event_type = row.event_type

\* The end of an iteration of the loop over the required types (line 51),
\* and of the loop over the users (line 39) after the user's last type.
NextIteration(sw) ==
    IF Len(sw.types) > 1
    THEN [sw EXCEPT !.pc = "reminder", !.types = Tail(@)]
    ELSE [sw EXCEPT !.pc = "user", !.types = <<>>, !.todo = Tail(@), !.local_date = 0]

\* Lines 121-123 once the session refuses statements: every remaining user
\* raises at line 41 and is skipped.
Abandoned(sw) ==
    [sw EXCEPT !.pc = "user", !.types = <<>>, !.todo = <<>>, !.local_date = 0,
               !.broken = TRUE]

\* Lines 36-37: the beat schedule or an operator starts a sweep.
StartSweep(s) ==
    /\ sweeps[s].pc = "idle"
    /\ \A i \in 1..(s - 1) : sweeps[i].pc # "idle"
    /\ sweeps' = [sweeps EXCEPT ![s] =
          [IdleSweep EXCEPT !.pc = "user", !.now_utc = clock,
                            !.todo = UsersInOrder(DOMAIN users)]]
    /\ overlapped' = (overlapped \/ \E i \in SweepIds : sweeps[i].pc # "idle")
    /\ UNCHANGED <<users, events, clock, pending_type, ledger, sent>>
    /\ UNCHANGED <<pipelineVars, timeVars>>
    /\ UNCHANGED inbound

\* A sweep for which every user is due at every tick.
CheckWindow_AlwaysDue(s) ==
    /\ sweeps[s].pc = "user"
    /\ sweeps[s].todo # <<>>
    /\ LET user == users[Head(sweeps[s].todo)]
           user_tz == get_user_timezone(user.timezone)
           now == Instants[sweeps[s].now_utc]
           local_date == get_local_date(now, user_tz)
       IN  sweeps' = [sweeps EXCEPT ![s] =
              IF user.reminder_required_types = <<>>
              THEN [@ EXCEPT !.todo = Tail(@)]
              ELSE [@ EXCEPT !.pc = "reminder", !.local_date = local_date,
                             !.types = user.reminder_required_types]]
    /\ UNCHANGED <<users, events, clock, pending_type, ledger, sent, overlapped>>
    /\ UNCHANGED <<pipelineVars, timeVars>>
    /\ UNCHANGED inbound

\* Lines 39-51: the next user; outside its window the user is skipped.
CheckWindow(s) ==
    /\ sweeps[s].pc = "user"
    /\ sweeps[s].todo # <<>>
    /\ LET user == users[Head(sweeps[s].todo)]
           user_tz == get_user_timezone(user.timezone)
           now == Instants[sweeps[s].now_utc]
           local_time == get_local_time(now, user_tz)
           local_date == get_local_date(now, user_tz)
       IN  sweeps' = [sweeps EXCEPT ![s] =
              IF ~is_time_in_range(local_time, user.reminder_time_local, WindowMinutes)
                 \/ user.reminder_required_types = <<>>
              THEN [@ EXCEPT !.todo = Tail(@)]
              ELSE [@ EXCEPT !.pc = "reminder", !.local_date = local_date,
                             !.types = user.reminder_required_types]]
    /\ UNCHANGED <<users, events, clock, pending_type, ledger, sent, overlapped>>
    /\ UNCHANGED <<pipelineVars, timeVars>>
    /\ UNCHANGED inbound

\* Lines 53-64.
CheckReminder(s) ==
    /\ sweeps[s].pc = "reminder"
    /\ sweeps' = [sweeps EXCEPT ![s] =
          IF existing_reminder(ledger, KeyOf(@))
          THEN NextIteration(@)
          ELSE [@ EXCEPT !.pc = "event"]]
    /\ UNCHANGED <<users, events, clock, pending_type, ledger, sent, overlapped>>
    /\ UNCHANGED <<pipelineVars, timeVars>>
    /\ UNCHANGED inbound

\* Lines 67-77.
CheckEvent(s) ==
    /\ sweeps[s].pc = "event"
    /\ sweeps' = [sweeps EXCEPT ![s] =
          IF event_exists(events, KeyOf(@))
          THEN NextIteration(@)
          ELSE [@ EXCEPT !.pc = "send"]]
    /\ UNCHANGED <<users, events, clock, pending_type, ledger, sent, overlapped>>
    /\ UNCHANGED <<pipelineVars, timeVars>>
    /\ UNCHANGED inbound

\* A sweep that records the reminder whether or not it was delivered.
SendReminder_RecordsFailure(s) ==
    /\ sweeps[s].pc = "send"
    /\ \E delivered \in BOOLEAN :
          /\ sent' = [sent EXCEPT ![KeyOf(sweeps[s])] = IF delivered THEN @ + 1 ELSE @]
          /\ sweeps' = [sweeps EXCEPT ![s].pc = "commit"]
    /\ UNCHANGED <<users, events, clock, pending_type, ledger, overlapped>>
    /\ UNCHANGED <<pipelineVars, timeVars>>
    /\ UNCHANGED inbound

\* Lines 96-101 and 116-119: bot.send_message; a failed delivery is logged
\* and the loop goes on.
SendReminder(s) ==
    /\ sweeps[s].pc = "send"
    /\ \E delivered \in BOOLEAN :
          IF delivered
          THEN /\ sent' = [sent EXCEPT ![KeyOf(sweeps[s])] = @ + 1]
               /\ sweeps' = [sweeps EXCEPT ![s].pc = "commit"]
          ELSE /\ sweeps' = [sweeps EXCEPT ![s] = NextIteration(@)]
               /\ UNCHANGED sent
    /\ UNCHANGED <<users, events, clock, pending_type, ledger, overlapped>>
    /\ UNCHANGED <<pipelineVars, timeVars>>
    /\ UNCHANGED inbound

\* Lines 104-111 and 116-119: the insert and its commit.  A rejected insert
\* is logged by the inner except branch; the failed flush has rolled the
\* session's transaction back, and without session.rollback() the session
\* refuses every later statement.
CommitReminder(s) ==
    /\ sweeps[s].pc = "commit"
    /\ LET row == ReminderRow(KeyOf(sweeps[s]))
       IN  IF UniqueViolation(ledger, row)
           THEN /\ sweeps' = [sweeps EXCEPT ![s] = Abandoned(@)]
                /\ UNCHANGED ledger
           ELSE /\ ledger' = Append(ledger, row)
                /\ sweeps' = [sweeps EXCEPT ![s] = NextIteration(@)]
    /\ UNCHANGED <<users, events, clock, pending_type, sent, overlapped>>
    /\ UNCHANGED <<pipelineVars, timeVars>>
    /\ UNCHANGED inbound

\* Lines 127-131: the sweep returns.
FinishSweep(s) ==
    /\ sweeps[s].pc = "user"
    /\ sweeps[s].todo = <<>>
    /\ sweeps' = [sweeps EXCEPT ![s] = IdleSweep]
    /\ UNCHANGED <<users, events, clock, pending_type, ledger, sent, overlapped>>
    /\ UNCHANGED <<pipelineVars, timeVars>>
    /\ UNCHANGED inbound

\* handlers.py lines 428-437: the "Add <type>" button under a reminder.
callback_add_from_reminder(u) ==
    /\ ChatOpen
    /\ \E key \in Keys :
          /\ key[1] = u
          /\ sent[key] > 0
          /\ pending_type' = [pending_type EXCEPT ![u] = key[3]]
    /\ inbound' = Received(u, "button", NULL, "type_set")
    /\ UNCHANGED <<users, events, clock, reminderVars, pipelineVars, timeVars>>

\* Time passes.
Tick ==
    /\ clock < Len(Instants)
    /\ clock' = clock + 1
    /\ UNCHANGED <<users, events, pending_type, reminderVars, pipelineVars, timeVars>>
    /\ UNCHANGED inbound

(***************************************************************************)
(* The pipeline specification: chat handlers and pipeline tasks.           *)
(***************************************************************************)
Init ==
    /\ users = <<>>
    /\ events = <<>>
    /\ queue = {}
    /\ jobs = [j \in JobIds |-> IdleJob]
    /\ summaries = [e \in 1..MaxEvents |-> 0]
    /\ pending_type = [u \in UserIds |-> NULL]
    /\ pending_message = [u \in UserIds |-> NULL]
    /\ clock = 1
    /\ ledger = <<>>
    /\ sweeps = [s \in SweepIds |-> IdleSweep]
    /\ sent = [k \in Keys |-> 0]
    /\ overlapped = FALSE
    /\ probe = NoProbe
    /\ answer = NoAnswer
    /\ capture = NoCapture
    /\ confirm = NoConfirm
    /\ inbound = NoInbound

Chat ==
    \E u \in ChatUsers :
       \/ cmd_set_type(u)
       \/ ExpirePending(u)
       \/ handle_text(u)
       \/ handle_voice(u)
       \/ handle_photo(u)
       \/ callback_set_type(u)

Worker ==
    \E j \in JobIds :
       \/ Start(j)
       \/ Load(j)
       \/ MarkProcessing(j)
       \/ Download(j)
       \/ EnrichFirst(j)
       \/ EnrichRetry(j)
       \/ HandleResult(j)
       \/ Notify(j)
       \/ HandleFailure(j)

Next == Chat \/ Worker

Spec == Init /\ [][Next]_vars

(***************************************************************************)
(* Properties of the pipeline (specification Spec).                        *)
(***************************************************************************)
StatusSteps ==
    {<<"queued", "processing">>, <<"processing", "ok">>, <<"processing", "failed">>}

\* C1: the status of an event only moves along queued -> processing ->
\* ok | failed: every change of a stored status is one of these three steps,
\* whatever the schedule of the deliveries.  (Refuted by two overlapping
\* deliveries of one job.)
C1_StatusOnlyMovesForward ==
    [][\A e \in 1..Len(events) :
          \/ events'[e].processing_status = events[e].processing_status
          \/ <<events[e].processing_status, events'[e].processing_status>> \in StatusSteps
      ]_vars

\* C2: an invocation that begins when the event is already ok or failed is a
\* no-op: its steps change no table and deliver no summary, it fetches no
\* blob, it calls the provider never, and it returns at the guard.
C2_CompletedEventIsNoOp ==
    [][\A j \in JobIds :
          jobs'[j].invoked_on \in {"ok", "failed"} =>
             /\ jobs'[j] # jobs[j] =>
                   /\ events' = events
                   /\ summaries' = summaries
                   /\ queue' = queue
             /\ jobs'[j].pc \in {"load", "done"}
             /\ jobs'[j].calls = <<>>
             /\ ~jobs'[j].fetched
             /\ jobs'[j].summary = "none"
             /\ jobs'[j].outcome \in {"none", "aborted"}
      ]_vars

\* C2 witness: a second delivery, begun on a finished event, has returned.
C2_Witness ==
    \E j \in JobIds :
        /\ jobs[j].invoked_on \in {"ok", "failed"}
        /\ jobs[j].pc = "done"
        /\ jobs[j].outcome = "aborted"

\* An invocation that observed queued at the guard and went on.
Proceeded(job) ==
    \/ job.pc \in {"mark", "download", "call1", "call2", "result", "notify", "handler"}
    \/ job.pc = "done" /\ job.outcome \in {"ok", "failed"}

\* C3: of the invocations for one event at most one observes queued and
\* goes on past the guard.  (Refuted: the guard reads, and the update
\* follows in a later statement.)
C3_AtMostOneProceeds ==
    \A e \in EventIds :
        Cardinality({j \in JobIds : jobs[j].ev = e /\ Proceeded(jobs[j])}) <= 1

\* C8: a created event that carries text is stored with status ok, one
\* without text with status queued; and the event of a text message has
\* status ok in every state.
C8_TextEventsAreBornOk ==
    [][/\ Len(events') = Len(events) + 1 =>
             LET row == events'[Len(events')]
             IN  /\ row.source_type = "text" => Truthy(row.text_content)
                 /\ Truthy(row.text_content) => row.processing_status = "ok"
                 /\ ~Truthy(row.text_content) => row.processing_status = "queued"
       /\ \A e \in 1..Len(events') :
             events'[e].source_type = "text" => events'[e].processing_status = "ok"
      ]_vars

\* C8 witness: the event of a text message is stored.
C8_Witness ==
    \E e \in EventIds :
        /\ events[e].source_type = "text"
        /\ Truthy(events[e].text_content)
        /\ events[e].processing_status = "ok"

C10_OneRepairRetry ==
    [][\A j \in JobIds :
          LET job == jobs'[j]
              c == job.calls
          IN  /\ Len(c) <= 2
              /\ (Len(c) = 1 /\ c[1].resp.tag = "nonjson") => job.pc = "call2"
              /\ Len(c) = 2 =>
                    /\ c[1].resp.tag = "nonjson"
                    /\ c[1].prompt = "full" /\ c[2].prompt = "repair"
                    /\ c[2].op = c[1].op
                    /\ c[2].file = c[1].file
                    /\ c[2].mime = c[1].mime
              /\ (Len(c) = 2 /\ c[2].resp.tag = "nonjson") =>
                    /\ job.pc = "handler"
                    /\ job.exc = ErrRepair
              /\ (jobs[j].pc = "handler" /\ jobs[j].exc = ErrRepair /\ job # jobs[j]) =>
                    /\ events'[job.ev].processing_status = "failed"
                    /\ events'[job.ev].processing_error = ErrRepair
      ]_vars

\* C10 witness: both responses were not JSON and the event is failed with
\* the parse error.
C10_Witness ==
    \E j \in JobIds :
        /\ jobs[j].pc = "done"
        /\ jobs[j].exc = ErrRepair
        /\ events[jobs[j].ev].processing_status = "failed"
        /\ events[jobs[j].ev].processing_error = ErrRepair


\* C11: whenever the provider answers the face analysis with a JSON array,
\* the operation returns an object built from the array's first element
\* (from nothing when that is no object), the fields it lacks filled with
\* the defaults, and the task goes on to its result.  (Refuted by an array
\* in answer to the repair prompt.)
C11_ArrayIsUnwrapped ==
    [][\A j \in JobIds :
          (/\ jobs[j].kind = "face"
           /\ Len(jobs'[j].calls) = Len(jobs[j].calls) + 1
           /\ jobs'[j].calls[Len(jobs'[j].calls)].resp.tag \in {"list_obj", "list_other"}) =>
             LET r == jobs'[j].calls[Len(jobs'[j].calls)].resp
                 given == IF r.tag = "list_obj" THEN r.has ELSE {}
             IN  /\ jobs'[j].pc = "result"
                 /\ jobs'[j].result.tag = "obj"
                 /\ jobs'[j].result.has = FaceFields
                 /\ jobs'[j].result.filled = FaceFields \ given
      ]_vars

\* C11 for the first provider call only, where it holds: client.py lines
\* 177-187 unwrap the array.
C11_FirstArrayIsUnwrapped ==
    [][\A j \in JobIds :
          (/\ jobs[j].kind = "face"
           /\ jobs[j].calls = <<>>
           /\ Len(jobs'[j].calls) = 1
           /\ jobs'[j].calls[1].resp.tag \in {"list_obj", "list_other"}) =>
             LET r == jobs'[j].calls[1].resp
                 given == IF r.tag = "list_obj" THEN r.has ELSE {}
             IN  /\ jobs'[j].pc = "result"
                 /\ jobs'[j].result.tag = "obj"
                 /\ jobs'[j].result.filled = FaceFields \ given
      ]_vars

\* C21: every object analyze_face returns, after the first provider call and
\* after the repair call alike, holds all four required fields, those the
\* provider's object lacked being filled with the defaults.  (Refuted by an
\* object in answer to the repair prompt, which is returned as it came.)
C21_FaceResultIsBackfilled ==
    [][\A j \in JobIds :
          (/\ jobs[j].kind = "face"
           /\ Len(jobs'[j].calls) = Len(jobs[j].calls) + 1
           /\ jobs'[j].calls[Len(jobs'[j].calls)].resp.tag = "obj") =>
             LET r == jobs'[j].calls[Len(jobs'[j].calls)].resp
             IN  /\ jobs'[j].pc = "result"
                 /\ jobs'[j].result.has = FaceFields
                 /\ jobs'[j].result.filled = FaceFields \ r.has
      ]_vars

\* C22: a provider object that lacks the required field (text for the
\* transcription, cleaned_text for the OCR) makes the operation raise, after
\* the first call and after the repair call alike, and no event ends ok with
\* empty text.  (Refuted by an object without the field in answer to the
\* repair prompt.)
C22_MissingTextFails ==
    [][/\ \A j \in JobIds :
             (/\ jobs[j].kind \in {"transcribe", "ocr"}
              /\ Len(jobs'[j].calls) = Len(jobs[j].calls) + 1
              /\ jobs'[j].calls[Len(jobs'[j].calls)].resp.tag = "obj"
              /\ RequiredField(jobs[j].kind)
                    \notin jobs'[j].calls[Len(jobs'[j].calls)].resp.has) =>
                /\ jobs'[j].pc = "handler"
                /\ Truthy(jobs'[j].exc)
       /\ \A e \in 1..Len(events') :
             events'[e].processing_status = "ok" => events'[e].text_content # ""
      ]_vars

\* C23: one enrichment operation calls the provider at most twice; the
\* second call is made only after a first response that did not parse as
\* JSON; an error of the first call ends the operation without another
\* call, and after the second call the operation has returned or raised.
C23_AtMostTwoProviderCalls ==
    [][\A j \in JobIds :
          LET before == jobs[j].calls
              after == jobs'[j].calls
          IN  /\ Len(after) <= 2
              /\ Len(after) <= Len(before) + 1
              /\ (Len(before) = 1 /\ Len(after) = 2) =>
                    /\ before[1].resp.tag = "nonjson"
                    /\ after[1] = before[1]
                    /\ jobs'[j].pc \in {"result", "handler"}
              /\ (Len(before) = 0 /\ Len(after) = 1 /\ after[1].resp.tag # "nonjson") =>
                    jobs'[j].pc \in {"result", "handler"}
              /\ (Len(before) = 0 /\ Len(after) = 1 /\ after[1].resp.tag = "error") =>
                    jobs'[j].pc = "handler"
              /\ (jobs[j].pc \in {"result", "handler"} /\ Len(before) > 0) =>
                    (after = before \/ after = <<>>)
      ]_vars

\* The repair call of an operation ran into a provider error: two calls were
\* made and the operation has raised.
C23_Witness ==
    \E j \in JobIds :
        /\ jobs[j].pc = "handler"
        /\ Len(jobs[j].calls) = 2
        /\ jobs[j].calls[1].resp.tag = "nonjson"
        /\ jobs[j].calls[2].resp.tag = "error"

C31_RotationIsBestEffort ==
    [][/\ \A j \in JobIds :
             /\ (jobs[j].pc = "download" /\ jobs'[j].pc # "download" /\ jobs'[j].fetched) =>
                   /\ jobs'[j].pc = "call1"
                   /\ events' = events
                   /\ jobs'[j].rotation = "raised" => jobs'[j].file = "temp"
             /\ jobs'[j].rotation = "raised" =>
                   \A i \in 1..Len(jobs'[j].calls) : jobs'[j].calls[i].file = "temp"
       /\ \A e \in 1..Len(events') : events'[e].processing_error # ErrRotate
      ]_vars

\* An OCR whose normalisation failed has stored its text and status ok.
C31_Witness ==
    \E j \in JobIds :
        /\ jobs[j].kind = "ocr"
        /\ jobs[j].rotation = "raised"
        /\ jobs[j].pc = "notify"
        /\ Len(jobs[j].calls) = 1
        /\ jobs[j].calls[1].file = "temp"
        /\ events[jobs[j].ev].processing_status = "ok"
        /\ events[jobs[j].ev].text_content = "ocr text"

\* C35: the enrichment output becomes visible together with status ok: a
\* step that changes an event's text content, derived metadata or entry type
\* leaves it in status ok; no event in status queued or processing holds
\* text content or derived metadata, and every event in status ok has text
\* content that is not null.
C35_OutputVisibleWithOk ==
    [][\A e \in 1..Len(events') :
          LET new == events'[e]
          IN  /\ (/\ e <= Len(events)
                  /\ \/ new.text_content # events[e].text_content
                     \/ new.derived_meta # events[e].derived_meta
                     \/ new.event_type # events[e].event_type) =>
                    new.processing_status = "ok"
              /\ new.processing_status \in {"queued", "processing"} =>
                    /\ new.text_content = NULL
                    /\ new.derived_meta = NoMeta
              /\ new.processing_status = "ok" => new.text_content # NULL
      ]_vars

\* C36: in every state an event's processing_error is set exactly when its
\* status is failed: queued, processing and ok events carry no error text
\* and every failed event carries one.
C36_ErrorIffFailed ==
    \A e \in EventIds :
        (events[e].processing_error # NULL) <=> (events[e].processing_status = "failed")

\* C14: the summary notification is attempted only by an invocation that has
\* committed status ok, never by one that failed or returned at the guard;
\* the attempt, whether it delivers or fails, leaves the event as it is (ok
\* and without processing_error when no other invocation works on the event),
\* ends the invocation as successful, and is made once.
C14_SummaryIsBestEffort ==
    [][\A j \in JobIds :
          /\ jobs'[j].outcome \in {"failed", "aborted", "not_found"} => jobs'[j].summary = "none"
          /\ jobs[j].pc = "done" => jobs'[j] = jobs[j]
          /\ jobs'[j].summary # jobs[j].summary =>
                LET e == jobs[j].ev
                IN  /\ jobs[j].summary = "none"
                    /\ jobs[j].pc = "notify"
                    /\ jobs'[j].pc = "done"
                    /\ jobs'[j].outcome = "ok"
                    /\ events' = events
                    /\ summaries'[e] - summaries[e] = (IF jobs'[j].summary = "sent" THEN 1 ELSE 0)
                    /\ (\A k \in JobIds \ {j} : jobs[k].ev # e) =>
                          /\ events'[e].processing_status = "ok"
                          /\ events'[e].processing_error = NULL
      ]_vars

\* The only invocation for an event committed ok, its notification failed,
\* and the event is ok without an error.
C14_Witness ==
    \E j \in JobIds :
        /\ jobs[j].pc = "done"
        /\ jobs[j].summary = "failed"
        /\ \A k \in JobIds \ {j} : jobs[k].ev # jobs[j].ev
        /\ events[jobs[j].ev].processing_status = "ok"
        /\ events[jobs[j].ev].processing_error = NULL
        /\ summaries[jobs[j].ev] = 0

\* C15: every capture that creates an event in status queued also submits a
\* job for it: an event that came from a voice message or a photo has a
\* message on the work queue.  (Refuted by a photo stored as drawing, other,
\* reflection or dream.)
C15_QueuedEventHasJob ==
    \A e \in EventIds :
        events[e].source_type # "text" => \E msg \in queue : msg.ev = e

\* C17: when the transcription succeeded and the classification of the
\* transcript failed, the event keeps the type it had; the type is
\* overwritten only when the classification succeeded; the event ends ok
\* either way.  (Refuted: the fallback answer of a failed classification is
\* written to the event.)
C17_TypeKeptWhenClassificationFails ==
    [][\A j \in JobIds :
          (jobs[j].kind = "transcribe" /\ jobs[j].pc = "result" /\ jobs'[j].pc = "notify") =>
             LET e == jobs[j].ev
             IN  /\ events'[e].processing_status = "ok"
                 /\ jobs'[j].classified # "obj" => events'[e].event_type = events[e].event_type
      ]_vars

\* C18: every inbound capture message (text, voice, photo) that the handler
\* does not answer with an error results in exactly one event row: the
\* handler appends one row, or (a photo of low confidence) holds the message
\* until the type is confirmed.  (Refuted by a text message of low
\* confidence, which is neither stored nor held.)
C18_OneEventPerCapture ==
    [][(/\ inbound'.seq # inbound.seq
        /\ inbound'.kind \in {"text", "voice", "photo"}
        /\ inbound'.reply # "error") =>
          \/ Len(events') = Len(events) + 1
          \/ /\ Len(events') = Len(events)
             /\ inbound'.kind = "photo"
             /\ pending_message'[inbound'.from] = "photo"
      ]_vars

(***************************************************************************)
(* The time-limit specification: the pipeline specification with the       *)
(* worker's soft and hard time limits.                                     *)
(***************************************************************************)
Limits ==
    \E j \in JobIds : SoftTimeLimit(j) \/ HardTimeLimit(j)

NextLimits == Chat \/ Worker \/ Limits

SpecLimits == Init /\ [][NextLimits]_vars

\* C16 as stated: a job that exceeds its time limit is terminated and leaves
\* the event as it is (in processing); it does not move it to failed.
\* (Refuted: the soft limit comes first and is handled by the task's except
\* branch, which moves the event to failed.)
C16_LimitLeavesEventInProcessing ==
    [][\A j \in JobIds :
          (jobs'[j].limit # "none" /\ jobs'[j] # jobs[j]) =>
             /\ jobs'[j].pc = "done"
             /\ events' = events
      ]_vars

\* C16, amended: a job killed at the hard limit leaves the event as it is
\* and never acts again; nothing else changes the event on its behalf.  A job
\* that exceeds the soft limit first gets an exception raised inside the
\* task: raised in the orientation normalisation of an image, in the
\* classification of the transcript, around the summary or in the except
\* branch it is dropped; raised anywhere else it reaches the except branch,
\* which moves the event to failed and stores the error.
C16_HardLimitLeavesEventSoftLimitFailsIt ==
    [][\A j \in JobIds :
          LET e == jobs[j].ev
              raised == jobs[j].limit = "none" /\ jobs'[j].limit = "soft"
          IN  /\ jobs[j].limit = "hard" => jobs'[j] = jobs[j]
              /\ (jobs[j].limit # "hard" /\ jobs'[j].limit = "hard") =>
                    /\ events' = events
                    /\ jobs'[j].pc = "done"
                    /\ jobs'[j].outcome = "killed"
              /\ raised => events' = events
              /\ (raised /\ jobs[j].pc \in {"load", "mark", "call1"}) =>
                    /\ jobs'[j].pc = "handler"
                    /\ jobs'[j].exc = "SoftTimeLimitExceeded()"
              /\ (raised /\ jobs[j].pc = "download") =>
                    \/ jobs'[j].pc = "handler" /\ jobs'[j].exc = "SoftTimeLimitExceeded()"
                    \/ /\ jobs'[j].pc = "call1"
                       /\ jobs[j].kind # "transcribe"
                       /\ jobs'[j].file = "temp"
              /\ (raised /\ jobs[j].pc = "call2") =>
                    /\ jobs'[j].pc = "handler"
                    /\ jobs'[j].exc = ErrRepair
              /\ (raised /\ jobs[j].pc = "result") =>
                    \/ jobs'[j].pc = "handler" /\ jobs'[j].exc = "SoftTimeLimitExceeded()"
                    \/ jobs'[j].pc = "result" /\ jobs[j].kind = "transcribe"
              /\ (raised /\ jobs[j].pc = "notify") =>
                    jobs'[j].pc = "done" /\ jobs'[j].outcome = "ok"
              /\ (raised /\ jobs[j].pc = "handler") =>
                    jobs'[j].pc = "done" /\ jobs'[j].outcome = "failed"
              /\ (jobs[j].pc = "handler" /\ jobs'[j].pc = "done" /\ jobs'[j].limit = jobs[j].limit) =>
                    /\ events'[e].processing_status = "failed"
                    /\ events'[e].processing_error = jobs[j].exc
      ]_vars

\* One invocation was killed at the hard limit after it had marked the event
\* as processing; a second one, delivered the same job, ran into the soft
\* limit and stored failed with the limit's error.
C16_Witness ==
    \E j, k \in JobIds :
        /\ jobs[j].limit = "hard"
        /\ jobs[j].fetched
        /\ jobs[k].limit = "soft"
        /\ jobs[k].pc = "done"
        /\ jobs[k].ev = jobs[j].ev
        /\ events[jobs[k].ev].processing_status = "failed"
        /\ events[jobs[k].ev].processing_error = "SoftTimeLimitExceeded()"

(***************************************************************************)
(* The crash specification: the pipeline specification with crashes of the *)
(* worker.                                                                 *)
(***************************************************************************)
Crashes ==
    \E j \in JobIds : Crash(j)

NextCrash == Chat \/ Worker \/ Crashes

SpecCrash == Init /\ [][NextCrash]_vars

\* The positions of a task between the commit of processing and the commit
\* of ok or failed.
MidPipeline == {"download", "call1", "call2", "result", "handler"}

\* C24: processing is committed before the blob is fetched, so a task that
\* dies between that commit and its last one leaves the event in processing;
\* the event is never set back to queued, an invocation that loads it
\* afterwards returns at the guard, and the event stays in processing.
\* (Refuted by a second invocation that had loaded the event while it was
\* still queued.)
C24_CrashLeavesEventProcessing ==
    [][/\ \A e \in EventIds :
             events[e].processing_status # "queued" => events'[e].processing_status # "queued"
       /\ \A j \in JobIds :
             LET e == jobs[j].ev
             IN  /\ (jobs[j].pc = "download" /\ jobs[j].invoked_on = "queued") =>
                       events[e].processing_status # "queued"
                 /\ (jobs[j].pc = "load" /\ jobs'[j] # jobs[j] /\ e \in EventIds
                        /\ events[e].processing_status = "processing") =>
                       jobs'[j].outcome \in {"aborted", "crashed"}
                 /\ (jobs[j].died_at = "none" /\ jobs'[j].died_at \in MidPipeline) =>
                       events'[e].processing_status = "processing"
                 /\ (jobs[j].died_at \in MidPipeline) =>
                       events'[e].processing_status = "processing"
      ]_vars

(***************************************************************************)
(* The commit specification: the pipeline specification with a database    *)
(* that can refuse a statement.  session.commit() raises, the exception is *)
(* an Exception and reaches the except branch of the task, which uses the  *)
(* same session and has its own except branch (lines 85-92).               *)
(***************************************************************************)
\* Lines 35-36 and line 74: session.commit() raises; nothing is committed
\* and the except branch of line 82 is entered.
CommitFails(j) ==
    /\ \/ jobs[j].pc = "mark"
       \/ /\ jobs[j].pc = "result"
          /\ IsDict(jobs[j].result)
          /\ ~(jobs[j].kind = "transcribe" /\ "text" \in jobs[j].result.nulls)
    /\ jobs' = [jobs EXCEPT ![j].pc = "handler", ![j].exc = ErrCommit]
    /\ UNCHANGED <<users, events, queue, summaries, pending_type, pending_message, clock>>
    /\ UNCHANGED <<reminderVars, timeVars>>
    /\ UNCHANGED inbound

\* Lines 85-92: the query or the commit of the except branch raises as well;
\* "except Exception: pass" swallows it and the task returns.
HandlerFails(j) ==
    /\ jobs[j].pc = "handler"
    /\ jobs' = [jobs EXCEPT ![j] = Returned(@, "unrecorded", "none")]
    /\ UNCHANGED <<users, events, queue, summaries, pending_type, pending_message, clock>>
    /\ UNCHANGED <<reminderVars, timeVars>>
    /\ UNCHANGED inbound

NextCommit ==
    Chat \/ Worker \/ (\E j \in JobIds : CommitFails(j) \/ HandlerFails(j))

SpecCommit == Init /\ [][NextCommit]_vars

\* C39: once an invocation has passed the guard and returned from the task
\* function (its outcome is ok, failed or unrecorded), and no other invocation
\* for the event is still inside the task, the event is ok or failed, also
\* when what the task had to handle was a commit that failed.
C39_ReturnedTaskLeavesTerminalStatus ==
    \A e \in EventIds :
       (/\ \E j \in JobIds : jobs[j].ev = e /\ jobs[j].pc = "done"
                             /\ jobs[j].outcome \in {"ok", "failed", "unrecorded"}
        /\ \A j \in JobIds : jobs[j].ev = e => jobs[j].pc \in {"idle", "done"}) =>
          events[e].processing_status \in {"ok", "failed"}

(***************************************************************************)
(* The conversation specification: the chat handlers, the /timezone        *)
(* command and the passing of time.                                        *)
(***************************************************************************)
Settings ==
    \E u \in ChatUsers : cmd_timezone(u)

NextChat == Chat \/ Settings \/ Tick

SpecChat == Init /\ [][NextChat]_vars

\* The calendar day of an instant for somebody hoursEast hours east of UTC.
DayAt(instant, hoursEast) ==
    IF instant.hour + hoursEast >= 24 THEN instant.day + 1 ELSE instant.day

\* The zone the user of a new capture has at the moment of the capture: the
\* stored one, or the default of a user who is created by the capture.
ZoneAtCapture(uid) ==
    IF uid \in DOMAIN users THEN users[uid].timezone ELSE "Europe/Berlin"

\* C32: a pending entry type applies to the next stored entry only: the
\* step in which a handler creates an event for a user whose pending type is
\* set, whether from a text, a voice message or a photo, clears that user's
\* pending type.
C32_PendingTypeAppliesOnce ==
    [][\A u \in UserIds :
          (/\ Len(events') = Len(events) + 1
           /\ events'[Len(events')].telegram_user_id = u
           /\ Truthy(pending_type[u])
           /\ events'[Len(events')].event_type = pending_type[u]) =>
             pending_type'[u] = NULL
      ]_vars

\* C12: an event's local_date is fixed when the event is created, from the
\* instant of creation and the user's timezone at that moment, and no later
\* step (a /timezone change, a pipeline task, any handler) changes it.
C12_LocalDateIsFixedAtCreation ==
    [][/\ Len(events') >= Len(events)
       /\ \A e \in EventIds :
             /\ events'[e].local_date = events[e].local_date
             /\ events'[e].created_at_utc = events[e].created_at_utc
       /\ \A e \in (1..Len(events')) \ EventIds :
             LET ev == events'[e]
                 hoursEast == IF ZoneAtCapture(ev.telegram_user_id) = "Europe/Berlin"
                              THEN 1 ELSE 0
             IN  /\ ev.created_at_utc = Instants[clock]
                 /\ ev.local_date = DayAt(Instants[clock], hoursEast)
      ]_vars

\* An event was created late in the evening in Berlin and the user has moved
\* to UTC since: the event keeps the Berlin date.
C12_Witness ==
    /\ Len(events) = 1
    /\ events[1].created_at_utc = Instants[5]
    /\ events[1].local_date = 2
    /\ users[events[1].telegram_user_id].timezone = "UTC"
    /\ inbound.kind = "timezone"

\* C13: /timezone with a string that is not a valid timezone name is
\* rejected: the stored timezone stays as it was and the user is told the
\* name is invalid; a valid name replaces the stored one; the timezone stored
\* for a user is a valid name at all times.
C13_StoredTimezoneIsValid ==
    [][/\ \A v \in DOMAIN users' : users'[v].timezone \in {"Europe/Berlin", "UTC"}
       /\ (inbound'.seq # inbound.seq /\ inbound'.kind = "timezone" /\ inbound'.arg # NULL) =>
             LET u == inbound'.from
             IN  /\ u \in DOMAIN users'
                 /\ \A v \in DOMAIN users' \ {u} : v \in DOMAIN users /\ users'[v] = users[v]
                 /\ IF inbound'.arg \in {"Europe/Berlin", "UTC"}
                    THEN users'[u].timezone = inbound'.arg
                    ELSE /\ users'[u].timezone = ZoneAtCapture(u)
                         /\ inbound'.reply = "tz_invalid"
      ]_vars

\* A user who had moved to UTC asked for a name that is no timezone, was told
\* so, and is still in UTC.
C13_Witness ==
    /\ inbound.kind = "timezone"
    /\ inbound.arg = "Mars/Olympus"
    /\ inbound.reply = "tz_invalid"
    /\ inbound.from \in DOMAIN users
    /\ users[inbound.from].timezone = "UTC"

(***************************************************************************)
(* The reminder specification: sweeps, the chat of a user and the clock.   *)
(* The users exist; the second one was configured by an operator.          *)
(***************************************************************************)
InitReminders ==
    /\ users = (101 :> DefaultUser)
               @@ (102 :> [DefaultUser EXCEPT
                              !.timezone = "UTC",
                              !.reminder_required_types = <<"mindform", "mindform">>])
    /\ events = <<>>
    /\ queue = {}
    /\ jobs = [j \in JobIds |-> IdleJob]
    /\ summaries = [e \in 1..MaxEvents |-> 0]
    /\ pending_type = [u \in UserIds |-> NULL]
    /\ pending_message = [u \in UserIds |-> NULL]
    /\ clock = 1
    /\ ledger = <<>>
    /\ sweeps = [s \in SweepIds |-> IdleSweep]
    /\ sent = [k \in Keys |-> 0]
    /\ overlapped = FALSE
    /\ probe = NoProbe
    /\ answer = NoAnswer
    /\ capture = NoCapture
    /\ confirm = NoConfirm
    /\ inbound = NoInbound

Sweep ==
    \E s \in SweepIds :
       \/ StartSweep(s)
       \/ CheckWindow(s)
       \/ CheckReminder(s)
       \/ CheckEvent(s)
       \/ SendReminder(s)
       \/ CommitReminder(s)
       \/ FinishSweep(s)

ReminderChat ==
    \E u \in ChatUsers :
       \/ handle_text(u)
       \/ callback_add_from_reminder(u)

NextReminders == Sweep \/ ReminderChat \/ Tick

SpecReminders == InitReminders /\ [][NextReminders]_vars

(***************************************************************************)
(* The logged-entry specification: sweeps over an events table that holds  *)
(* an entry of user 101 in any of the statuses the pipeline gives it.       *)
(***************************************************************************)
\* The users of the reminder specification.
ReminderUsers ==
    (101 :> DefaultUser)
    @@ (102 :> [DefaultUser EXCEPT
                   !.timezone = "UTC",
                   !.reminder_required_types = <<"mindform", "mindform">>])

\* A media entry of user 101 as its capture handler stores it.
CapturedRow(event_type) ==
    IF event_type = "mindform"
    THEN create_event_from_message(ReminderUsers, Instants[1], 101, event_type, "photo",
                                   "photo key", "image/jpeg", NULL)
    ELSE create_event_from_message(ReminderUsers, Instants[1], 101, event_type, "voice",
                                   "voice key", "audio/ogg", NULL)

\* The entry as stored (queued), as marked by its task (processing), as left
\* by the task's except branch (failed), and a text entry (ok).
LoggedRows ==
    UNION {{ CapturedRow(t),
             MarkedProcessing(CapturedRow(t)),
             FailedRow(MarkedProcessing(CapturedRow(t)), ErrProvider),
             create_event_from_message(ReminderUsers, Instants[1], 101, t, "text",
                                       NULL, NULL, "user text") } : t \in ReminderTypes}

InitLogged ==
    /\ users = ReminderUsers
    /\ events \in {<<>>} \cup {<<row>> : row \in LoggedRows}
    /\ queue = {}
    /\ jobs = [j \in JobIds |-> IdleJob]
    /\ summaries = [e \in 1..MaxEvents |-> 0]
    /\ pending_type = [u \in UserIds |-> NULL]
    /\ pending_message = [u \in UserIds |-> NULL]
    /\ clock = 1
    /\ ledger = <<>>
    /\ sweeps = [s \in SweepIds |-> IdleSweep]
    /\ sent = [k \in Keys |-> 0]
    /\ overlapped = FALSE
    /\ probe = NoProbe
    /\ answer = NoAnswer
    /\ capture = NoCapture
    /\ confirm = NoConfirm
    /\ inbound = NoInbound

NextLogged == Sweep \/ Tick

SpecLogged == InitLogged /\ [][NextLogged]_vars

(***************************************************************************)
(* Properties of the reminder sweep (specification SpecReminders).         *)
(***************************************************************************)
\* The rows of the ledger for a key.
RowsFor(tbl, key) ==
    {i \in 1..Len(tbl) : <<tbl[i].telegram_user_id, tbl[i].local_date,
                           tbl[i].event_type>> = key}

\* The events of a key.
EventsFor(tbl, key) ==
    {i \in 1..Len(tbl) : <<tbl[i].telegram_user_id, tbl[i].local_date,
                           tbl[i].event_type>> = key}

\* C4: in every state the ledger holds at most one row for a user, a local
\* date and a type, however many sweeps ran and whether or not they
\* overlapped.
C4_OneRowPerKey ==
    \A key \in Keys : Cardinality(RowsFor(ledger, key)) <= 1

\* C4 witness: two overlapping sweeps both delivered the reminder of a key,
\* both inserts were attempted, and the ledger holds one row.
C4_Witness ==
    /\ overlapped
    /\ \A s \in SweepIds : sweeps[s].pc = "idle"
    /\ \E key \in Keys :
          /\ sent[key] = 2
          /\ Cardinality(RowsFor(ledger, key)) = 1

\* C5: as long as no two sweeps overlapped, at most one notification was
\* delivered for each key, and a sweep that is past the ledger query of an
\* iteration (about to query the events, to send, or to insert) has found no
\* row: an iteration whose key has a row skips without sending.
C5_OneNotificationPerKey ==
    ~overlapped =>
       /\ \A key \in Keys : sent[key] <= 1
       /\ \A s \in SweepIds :
             sweeps[s].pc \in {"event", "send", "commit"} =>
                RowsFor(ledger, KeyOf(sweeps[s])) = {}

\* C5 witness: without any overlap, a sweep is at the second iteration over
\* a type listed twice, and the first iteration has sent and committed.
C5_Witness ==
    /\ ~overlapped
    /\ \E s \in SweepIds :
          /\ sweeps[s].pc = "reminder"
          /\ Len(sweeps[s].types) = 1
          /\ users[Head(sweeps[s].todo)].reminder_required_types
                = <<"mindform", "mindform">>
          /\ sent[KeyOf(sweeps[s])] = 1
          /\ RowsFor(ledger, KeyOf(sweeps[s])) # {}

\* The instant of an event's creation lies before the instant a sweep read.
CreatedBefore(event, sw) ==
    LET a == event.created_at_utc
        b == Instants[sw.now_utc]
    IN  ((a.day * 24 + a.hour) * 60 + a.minute) * 60 + a.second
           < ((b.day * 24 + b.hour) * 60 + b.minute) * 60 + b.second

\* What an iteration does, up to the delivery: the ledger query lets it on
\* exactly when the key has no row, the event query exactly when the key has
\* no event; these steps deliver and write nothing.
IterationChecks(s) ==
    LET sw == sweeps[s]
        key == KeyOf(sw)
    IN  /\ sw.pc = "reminder" =>
              /\ sweeps'[s].pc = "event" <=> RowsFor(ledger, key) = {}
              /\ sent' = sent /\ ledger' = ledger
        /\ sw.pc = "event" =>
              /\ sweeps'[s].pc = "send" <=> EventsFor(events, key) = {}
              /\ sent' = sent /\ ledger' = ledger

\* C6 as stated: an iteration that found neither a row nor an event
\* dispatches the reminder and writes the row.  (Refuted by a delivery that
\* fails: nothing is dispatched and no row is written.)
C6_DispatchIffNeither ==
    [][\A s \in SweepIds :
          sweeps'[s] # sweeps[s] =>
             LET sw == sweeps[s]
                 key == KeyOf(sw)
             IN  /\ IterationChecks(s)
                 /\ sw.pc = "send" =>
                       /\ sent' = [sent EXCEPT ![key] = @ + 1]
                       /\ sweeps'[s].pc = "commit"
                 /\ sw.pc = "commit" =>
                       /\ Len(ledger') = Len(ledger) + 1
                       /\ RowsFor(ledger', key) # {}
      ]_vars

\* C6, amended: a sweep is in an iteration only for a user inside the due
\* window; the delivery is attempted exactly when the two queries found
\* neither a row nor an event; a reminder is delivered for no key that had
\* an event before the sweep began; the row is written exactly after a
\* delivery that succeeded, unless the constraint rejects it; a delivery
\* that failed writes no row; nothing else delivers or writes.
C6_DispatchIffNeitherAndRowIffDelivered ==
    [][/\ \A s \in SweepIds :
             sweeps'[s].pc \in {"reminder", "event", "send", "commit"} =>
                LET user == users[Head(sweeps'[s].todo)]
                    now == Instants[sweeps'[s].now_utc]
                    local == (now.hour + (IF user.timezone = "UTC" THEN 0 ELSE 1)) % 24
                    current == local * 3600 + now.minute * 60 + now.second
                    target == user.reminder_time_local.hour * 3600
                                 + user.reminder_time_local.minute * 60
                IN  target <= current /\ current < target + 300
       /\ \A s \in SweepIds :
             sweeps'[s] # sweeps[s] =>
                LET sw == sweeps[s]
                    key == KeyOf(sw)
                IN  /\ IterationChecks(s)
                    /\ sw.pc = "send" =>
                          /\ ledger' = ledger
                          /\ \/ /\ sent' = [sent EXCEPT ![key] = @ + 1]
                                /\ sweeps'[s].pc = "commit"
                                /\ \A e \in EventsFor(events, key) :
                                      ~CreatedBefore(events[e], sw)
                             \/ /\ sent' = sent
                                /\ sweeps'[s].pc # "commit"
                    /\ sw.pc = "commit" =>
                          /\ sent' = sent
                          /\ \/ /\ RowsFor(ledger, key) = {}
                                /\ Len(ledger') = Len(ledger) + 1
                                /\ RowsFor(ledger', key) = {Len(ledger')}
                                /\ ledger'[Len(ledger')].status = "sent"
                             \/ /\ RowsFor(ledger, key) # {}
                                /\ ledger' = ledger
       /\ sent' # sent => \E s \in SweepIds : sweeps[s].pc = "send"
       /\ ledger' # ledger => \E s \in SweepIds : sweeps[s].pc = "commit"
      ]_vars

\* C6 witness: the first user has a reflection event and no mindform event
\* on the date, the sweeps that ran did not overlap and have returned; one
\* reminder was delivered to the user, for mindform, and the user's one row
\* is the row of that key.
C6_Witness ==
    /\ ~overlapped
    /\ \A s \in SweepIds : sweeps[s].pc = "idle"
    /\ \E d \in Dates :
          /\ EventsFor(events, <<101, d, "reflection">>) # {}
          /\ EventsFor(events, <<101, d, "mindform">>) = {}
          /\ sent[<<101, d, "reflection">>] = 0
          /\ sent[<<101, d, "mindform">>] = 1
          /\ RowsFor(ledger, <<101, d, "reflection">>) = {}
          /\ Cardinality(RowsFor(ledger, <<101, d, "mindform">>)) = 1

\* C25: a ledger row for a key is written only by the sweep iteration that
\* has just delivered the notification for that key; an iteration whose
\* send failed writes no row and goes on; and an iteration that finds
\* neither a row nor an event for its key attempts the send, so that after
\* a failed send a later sweep in the window sends again.
C25_RowOnlyAfterDelivery ==
    [][/\ ledger' # ledger =>
             \E s \in SweepIds :
                /\ sweeps[s].pc = "commit"
                /\ sweeps'[s] # sweeps[s]
                /\ sent[KeyOf(sweeps[s])] >= 1
                /\ ledger' = Append(ledger, ReminderRow(KeyOf(sweeps[s])))
       /\ \A s \in SweepIds :
             LET sw == sweeps[s]
                 key == KeyOf(sw)
             IN  /\ (sweeps'[s].pc = "commit" /\ sweeps'[s] # sw) =>
                       /\ sw.pc = "send"
                       /\ sent'[key] = sent[key] + 1
                 /\ (sw.pc = "send" /\ sweeps'[s] # sw /\ sent' = sent) =>
                       /\ ledger' = ledger
                       /\ sweeps'[s].pc \in {"reminder", "user"}
                       /\ ~sweeps'[s].broken
                 /\ (sw.pc = "reminder" /\ sweeps'[s] # sw /\ RowsFor(ledger, key) = {}) =>
                       sweeps'[s].pc = "event"
                 /\ (sw.pc = "event" /\ sweeps'[s] # sw /\ EventsFor(events, key) = {}) =>
                       sweeps'[s].pc = "send"
      ]_vars

\* No sweeps overlapped; the reminder for the user's second type was
\* delivered and recorded, the one for the first type was not delivered and
\* has no row, and a sweep is about to send it again.
C25_Witness ==
    /\ ~overlapped
    /\ \E d \in Dates, s \in SweepIds :
          /\ sweeps[s].pc = "send"
          /\ KeyOf(sweeps[s]) = <<101, d, "reflection">>
          /\ sent[<<101, d, "reflection">>] = 0
          /\ RowsFor(ledger, <<101, d, "reflection">>) = {}
          /\ sent[<<101, d, "mindform">>] = 1
          /\ RowsFor(ledger, <<101, d, "mindform">>) # {}

\* C26: when sweeps overlap, at most one of them delivers the reminder for
\* a given key: no key ever has more than one delivered notification.
\* (Refuted: both sweeps pass the ledger check before either has committed
\* its row.)
C26_OverlapSendsOnce ==
    \A key \in Keys : sent[key] <= 1

\* The sweep's tick, read once when the sweep starts, lies in the due window
\* of the key's user on the key's date: the user's local time at the tick is
\* in the 300 seconds that begin with the reminder time, and the user's local
\* date at the tick is the key's.
TickInWindowOf(sw, key) ==
    LET user == users[key[1]]
        now == Instants[sw.now_utc]
        east == IF user.timezone = "UTC" THEN 0 ELSE 1
        local == (now.hour + east) % 24
        date == now.day + (IF now.hour + east >= 24 THEN 1 ELSE 0)
        current == local * 3600 + now.minute * 60 + now.second
        target == user.reminder_time_local.hour * 3600 + user.reminder_time_local.minute * 60
    IN  /\ date = key[2]
        /\ target <= current
        /\ current < target + 300

\* C27: a notification or a ledger row for (user, date, type) is produced
\* only by a sweep whose tick lies in the user's due window on that date; a
\* sweep whose tick lies outside it passes the user by, whatever is missing.
C27_OnlyInWindowSweepsDispatch ==
    [][/\ sent' # sent =>
             \E s \in SweepIds :
                /\ sweeps[s].pc = "send"
                /\ sweeps'[s] # sweeps[s]
                /\ sent' = [sent EXCEPT ![KeyOf(sweeps[s])] = @ + 1]
                /\ TickInWindowOf(sweeps[s], KeyOf(sweeps[s]))
       /\ ledger' # ledger =>
             \E s \in SweepIds :
                /\ sweeps[s].pc = "commit"
                /\ sweeps'[s] # sweeps[s]
                /\ ledger' = Append(ledger, ReminderRow(KeyOf(sweeps[s])))
                /\ TickInWindowOf(sweeps[s], KeyOf(sweeps[s]))
       /\ \A s \in SweepIds :
             (/\ sweeps[s].pc = "user"
              /\ sweeps[s].todo # <<>>
              /\ sweeps'[s] # sweeps[s]
              /\ \A d \in Dates, t \in ReminderTypes :
                    ~TickInWindowOf(sweeps[s], <<Head(sweeps[s].todo), d, t>>)) =>
                /\ sweeps'[s].pc = "user"
                /\ sweeps'[s].todo = Tail(sweeps[s].todo)
                /\ sent' = sent
                /\ ledger' = ledger
      ]_vars

\* A sweep whose tick is the first second after the first user's window has
\* passed that user by: nothing was delivered or recorded for the user,
\* though no entry of the day exists.
C27_Witness ==
    \E s \in SweepIds :
        /\ sweeps[s].now_utc = 4
        /\ sweeps[s].pc = "user"
        /\ sweeps[s].todo = <<102>>
        /\ events = <<>>
        /\ ledger = <<>>
        /\ \A key \in Keys : sent[key] = 0

\* C28: the ledger is append-only and written only by the sweep: a step
\* leaves every existing row as it is and in its place, adds at most one row,
\* whose status is sent, and adds it only as the commit of a sweep; every row
\* has status sent.
C28_LedgerIsAppendOnly ==
    [][/\ Len(ledger') \in {Len(ledger), Len(ledger) + 1}
       /\ \A i \in 1..Len(ledger) : ledger'[i] = ledger[i]
       /\ \A i \in 1..Len(ledger') : ledger'[i].status = "sent"
       /\ Len(ledger') = Len(ledger) + 1 =>
             /\ inbound' = inbound
             /\ clock' = clock
             /\ \E s \in SweepIds :
                   /\ sweeps[s].pc = "commit"
                   /\ sweeps'[s].pc # "commit"
                   /\ ledger'[Len(ledger')].telegram_user_id = Head(sweeps[s].todo)
                   /\ ledger'[Len(ledger')].event_type = Head(sweeps[s].types)
      ]_vars

\* Two rows are in the ledger, every sweep has returned, and the user has
\* since pressed the button under a reminder.
C28_Witness ==
    /\ Len(ledger) = 2
    /\ \A s \in SweepIds : sweeps[s].pc = "idle"
    /\ inbound.kind = "button"
    /\ pending_type[101] # NULL

\* C34: the sweep takes a required type as logged as soon as an event of
\* the user, the local date and the type exists, whatever its status: the
\* step that queries the events goes to the next type without sending, and
\* for a key that has an event, queued, processing, failed or ok, no
\* reminder is sent and no ledger row is written.
C34_AnyEventSuppressesReminder ==
    [][/\ \A s \in SweepIds :
             (/\ sweeps[s].pc = "event"
              /\ sweeps'[s] # sweeps[s]
              /\ EventsFor(events, KeyOf(sweeps[s])) # {}) =>
                /\ sweeps'[s] = NextIteration(sweeps[s])
                /\ sent' = sent
                /\ ledger' = ledger
       /\ \A key \in Keys :
             EventsFor(events', key) # {} =>
                /\ sent'[key] = 0
                /\ RowsFor(ledger', key) = {}
      ]_vars

\* Inside the window a sweep has passed user 101's reflection, of which a
\* failed entry exists, without a reminder and has come to the next type.
C34_Witness ==
    \E s \in SweepIds :
        /\ Len(events) = 1
        /\ events[1].processing_status = "failed"
        /\ events[1].event_type = "reflection"
        /\ sweeps[s].pc = "reminder"
        /\ KeyOf(sweeps[s]) = <<101, events[1].local_date, "mindform">>
        /\ sent[<<101, events[1].local_date, "reflection">>] = 0
        /\ ledger = <<>>

\* C19: within a sweep, a failure while handling one type of one user (the
\* send, or the recording that follows it) does not stop the sweep: the loop
\* over a user's types moves on one type at a time, the loop over the users
\* moves on one user at a time and only after that user's last type, and a
\* row is written only for a delivered notification.  (Refuted by a rejected
\* insert, after which the remaining types and users are not examined.)
C19_SweepGoesOnAfterFailure ==
    [][/\ \A s \in SweepIds :
             (sweeps[s].pc # "idle" /\ sweeps'[s].pc # "idle") =>
                /\ sweeps'[s].todo # sweeps[s].todo =>
                      /\ sweeps'[s].todo = Tail(sweeps[s].todo)
                      /\ Len(sweeps[s].types) <= 1
                /\ (sweeps'[s].types # sweeps[s].types /\ sweeps[s].types # <<>>) =>
                      sweeps'[s].types = Tail(sweeps[s].types)
       /\ ledger' # ledger =>
             \E s \in SweepIds :
                /\ sweeps[s].pc = "commit"
                /\ sent[KeyOf(sweeps[s])] > 0
                /\ ledger' = Append(ledger, ReminderRow(KeyOf(sweeps[s])))
      ]_vars

(***************************************************************************)
(* The capture specification: handle_voice step by step, one step for each *)
(* call of the blob store, the database and the work queue, while time     *)
(* passes over the turn of a year.                                         *)
(***************************************************************************)
CalendarInstant(y, mo, d, h, m, s) ==
    [year |-> y, month |-> mo, day |-> d, hour |-> h, minute |-> m, second |-> s]

CaptureInstants ==
    << CalendarInstant(2024, 12, 31, 22, 59, 58), CalendarInstant(2024, 12, 31, 22, 59, 59),
       CalendarInstant(2025, 1, 1, 0, 0, 0) >>

\* Time passes during a capture.
Elapse ==
    /\ clock < Len(CaptureInstants)
    /\ clock' = clock + 1
    /\ UNCHANGED <<users, events, pending_type, reminderVars, pipelineVars, timeVars>>
    /\ UNCHANGED inbound

\* handle_voice lines 495-522: the file is fetched from the chat, the clock
\* is read, an id is drawn and the key is made of them.
VoiceKey(u) ==
    /\ ChatOpen
    /\ capture.pc = "idle"
    /\ \E event_id \in Uuids :
          capture' = [capture EXCEPT
                         !.pc = "upload",
                         !.event_id = event_id,
                         !.s3_key = generate_s3_key(u, event_id,
                                                    "voice_" \o event_id \o ".ogg",
                                                    CaptureInstants[clock])]
    /\ users' = get_or_create_user(users, u)
    /\ inbound' = Received(u, "voice", NULL, "none")
    /\ UNCHANGED <<events, clock, pending_type, reminderVars, pipelineVars, probe, answer, confirm>>

\* A capture that goes on when the store has raised.
VoiceUpload_IgnoresFailure ==
    /\ capture.pc = "upload"
    /\ \E stored \in BOOLEAN :
          /\ capture' = [capture EXCEPT
                            !.pc = "create",
                            !.stored = IF stored THEN {capture.s3_key} ELSE {}]
          /\ UNCHANGED inbound
    /\ UNCHANGED <<users, events, clock, pending_type, reminderVars, pipelineVars, probe, answer, confirm>>

\* handle_voice line 523: the blob is stored under the key, or the store
\* raises and the handler answers with the error (lines 554-556).
VoiceUpload ==
    /\ capture.pc = "upload"
    /\ \E stored \in BOOLEAN :
          IF stored
          THEN /\ capture' = [capture EXCEPT !.pc = "create", !.stored = {capture.s3_key}]
               /\ UNCHANGED inbound
          ELSE /\ capture' = NoCapture
               /\ inbound' = [inbound EXCEPT !.reply = "error"]
    /\ UNCHANGED <<users, events, clock, pending_type, reminderVars, pipelineVars, probe, answer, confirm>>

\* handle_voice lines 526-537: create_event_from_message reads the clock and
\* inserts the row; models.py line 58-60 gives the row its id.
VoiceCreate ==
    /\ capture.pc = "create"
    /\ LET u == inbound.from
           pending == IF Truthy(pending_type[u]) THEN pending_type[u] ELSE "reflection"
       IN  /\ events' = Append(events,
                 create_event_from_message(users, CaptureInstants[clock], u, pending,
                                           "voice", capture.s3_key, "audio/ogg", NULL))
           /\ \E id \in Uuids :
                 capture' = [capture EXCEPT
                                !.pc = "submit", !.row = Len(events) + 1, !.id = id]
    /\ UNCHANGED <<users, clock, pending_type, reminderVars, pipelineVars, probe, answer, confirm>>
    /\ UNCHANGED inbound

\* handle_voice lines 540-546: the transcription is submitted and the chat
\* is told that the voice message was saved.
VoiceSubmit ==
    /\ capture.pc = "submit"
    /\ queue' = queue \cup {[ev |-> capture.row, kind |-> "transcribe"]}
    /\ capture' = [capture EXCEPT !.pc = "saved"]
    /\ inbound' = [inbound EXCEPT !.reply = "saved"]
    /\ UNCHANGED <<users, events, clock, pending_type, reminderVars, probe, answer, confirm>>
    /\ UNCHANGED <<jobs, summaries, pending_message>>

VoiceCapture ==
    \/ \E u \in ChatUsers : VoiceKey(u)
    \/ VoiceUpload
    \/ VoiceCreate
    \/ VoiceSubmit

NextCapture == VoiceCapture \/ Elapse \/ Worker

SpecCapture == Init /\ [][NextCapture]_vars

(***************************************************************************)
(* Properties of the capture (specification SpecCapture).                  *)
(***************************************************************************)
\* C37: a capture stores the blob, then commits the event row, then submits
\* the job: a row is created with a key under which the blob is already
\* stored, a job is submitted for a row that is already committed, and no
\* task finds the event of its job missing.
C37_UploadThenRowThenJob ==
    [][/\ Len(events') > Len(events) =>
             events'[Len(events')].raw_file_s3_key \in capture.stored
       /\ \A e \in 1..Len(events') :
             events'[e].raw_file_s3_key # NULL =>
                events'[e].raw_file_s3_key \in capture'.stored
       /\ \A msg \in queue' \ queue : msg.ev \in 1..Len(events)
       /\ \A msg \in queue' : msg.ev \in 1..Len(events')
       /\ \A j \in JobIds : jobs'[j].outcome # "not_found"
      ]_vars

\* The voice message was stored, its row committed and its job submitted;
\* a task has fetched the blob and finished the event.
C37_Witness ==
    \E j \in JobIds :
        /\ capture.pc = "saved"
        /\ capture.stored = {events[capture.row].raw_file_s3_key}
        /\ [ev |-> capture.row, kind |-> "transcribe"] \in queue
        /\ jobs[j].ev = capture.row
        /\ jobs[j].pc = "done"
        /\ jobs[j].fetched
        /\ jobs[j].outcome = "ok"

\* C30: the blob key stored on an event is raw/{user}/{year}/{month:02}/
\* {day:02}/{event_id}/{filename}, where event_id is the id of the event row
\* that holds the key and year, month and day are those of the row's UTC
\* creation instant.
C30_BlobKeyNamesItsEvent ==
    capture.pc \in {"submit", "saved"} =>
       LET event == events[capture.row]
           key == event.raw_file_s3_key
       IN  /\ Len(key) = 7
           /\ key[1] = "raw"
           /\ key[2] = ToString(event.telegram_user_id)
           /\ key[3] = ToString(event.created_at_utc.year)
           /\ key[4] = Pad2(event.created_at_utc.month)
           /\ key[5] = Pad2(event.created_at_utc.day)
           /\ key[6] = capture.id

(***************************************************************************)
(* The confirmation specification: photos whose type the user confirms on  *)
(* the keyboard, with the callbacks of several taps under way at once.     *)
(* callback_set_type is followed from await to await.                      *)
(***************************************************************************)
\* handle_photo for the next photo of the chat.  fetched: the download for
\* the classification succeeded (lines 573-575; otherwise lines 613-620);
\* stored: the download and the upload of lines 626-648 succeeded.  The
\* pending message (lines 593-604) carries the message id of the photo.
PhotoArrives(u) ==
    /\ confirm.photos < MaxPhotos
    /\ confirm' = [confirm EXCEPT !.photos = @ + 1]
    /\ \E c \in ImageAnswers, fetched \in BOOLEAN, stored \in BOOLEAN :
       LET pending == pending_type[u]
           classification == classify_image(c)
           chosen == IF Truthy(pending) THEN pending ELSE classification.event_type
           tbl == get_or_create_user(users, u)
       IN  IF ~Truthy(pending) /\ ~fetched
           THEN /\ inbound' = Received(u, "photo", NULL, "ask_type")
                /\ UNCHANGED <<users, events, queue, pending_type, pending_message>>
           ELSE IF ~Truthy(pending) /\ classification.confidence < 60
           THEN /\ pending_message' =
                      [pending_message EXCEPT ![u] = "photo " \o ToString(confirm.photos + 1)]
                /\ pending_type' = [pending_type EXCEPT ![u] = classification.event_type]
                /\ inbound' = Received(u, "photo", NULL, "confirm_type")
                /\ UNCHANGED <<users, events, queue>>
           ELSE IF ~stored
           THEN /\ inbound' = Received(u, "photo", NULL, "error")
                /\ UNCHANGED <<users, events, queue, pending_type, pending_message>>
           ELSE /\ users' = tbl
                /\ events' = Append(events,
                      create_event_from_message(tbl, Instants[clock], u, chosen, "photo",
                                                "photo key", "image/jpeg", NULL))
                /\ queue' = queue \cup PhotoJobs(Len(events) + 1, chosen)
                /\ inbound' = Received(u, "photo", NULL, "saved")
                /\ UNCHANGED <<pending_type, pending_message>>
    /\ UNCHANGED <<jobs, summaries, clock, reminderVars, probe, answer, capture>>

\* Lines 312-319: the tap on a type; the type is stored as the pending type
\* and the callback is answered.
TapType(t, u) ==
    /\ confirm.taps[t].pc = "idle"
    /\ \A i \in 1..(t - 1) : confirm.taps[i].pc # "idle"
    /\ \E event_type \in KeyboardTypes :
          IF event_type = "other"
          THEN /\ confirm' = [confirm EXCEPT !.taps[t].pc = "done",
                                             !.taps[t].event_type = event_type]
               /\ inbound' = Received(u, "button", NULL, "use_commands")
               /\ UNCHANGED pending_type
          ELSE /\ confirm' = [confirm EXCEPT !.taps[t].pc = "consume",
                                             !.taps[t].event_type = event_type]
               /\ pending_type' = [pending_type EXCEPT ![u] = event_type]
               /\ inbound' = Received(u, "button", NULL, "none")
    /\ UNCHANGED <<users, events, clock, reminderVars, pipelineVars, probe, answer, capture>>

\* A callback that reads the pending message and leaves it in place.
TapConsume_Keeps(t, u) ==
    /\ confirm.taps[t].pc = "consume"
    /\ IF Truthy(pending_message[u])
       THEN confirm' = [confirm EXCEPT !.taps[t].pc = "store",
                                       !.taps[t].pending_msg = pending_message[u]]
       ELSE confirm' = [confirm EXCEPT !.taps[t].pc = "done"]
    /\ UNCHANGED <<users, events, clock, pending_type, reminderVars, pipelineVars>>
    /\ UNCHANGED <<inbound, probe, answer, capture>>

\* Lines 322-326 (and 413-425): get_pending_message and, for a photo,
\* clear_pending_message, with no await between them.
TapConsume(t, u) ==
    /\ confirm.taps[t].pc = "consume"
    /\ IF Truthy(pending_message[u])
       THEN /\ confirm' = [confirm EXCEPT !.taps[t].pc = "store",
                                          !.taps[t].pending_msg = pending_message[u]]
            /\ pending_message' = [pending_message EXCEPT ![u] = NULL]
            /\ UNCHANGED inbound
       ELSE /\ confirm' = [confirm EXCEPT !.taps[t].pc = "done"]
            /\ inbound' = [inbound EXCEPT !.reply = "type_set"]
            /\ UNCHANGED pending_message
    /\ UNCHANGED <<users, events, clock, pending_type, reminderVars, queue, jobs, summaries>>
    /\ UNCHANGED <<probe, answer, capture>>

\* Lines 333-354: the photo is fetched from the chat and stored in the
\* bucket, or the handler answers with the error (lines 407-412).
TapStore(t, u) ==
    /\ confirm.taps[t].pc = "store"
    /\ \E stored \in BOOLEAN :
          IF stored
          THEN /\ confirm' = [confirm EXCEPT !.taps[t].pc = "create"]
               /\ users' = get_or_create_user(users, u)
               /\ UNCHANGED inbound
          ELSE /\ confirm' = [confirm EXCEPT !.taps[t].pc = "done"]
               /\ inbound' = [inbound EXCEPT !.reply = "error"]
               /\ UNCHANGED users
    /\ UNCHANGED <<events, clock, pending_type, reminderVars, pipelineVars>>
    /\ UNCHANGED <<probe, answer, capture>>

\* Lines 356-381: the event of the pending photo is created.
TapCreate(t, u) ==
    /\ confirm.taps[t].pc = "create"
    /\ events' = Append(events,
          create_event_from_message(users, Instants[clock], u, confirm.taps[t].event_type,
                                    "photo", "photo key", "image/jpeg", NULL))
    /\ confirm' = [confirm EXCEPT !.taps[t].pc = "submit", !.taps[t].row = Len(events) + 1]
    /\ UNCHANGED <<users, clock, pending_type, reminderVars, pipelineVars>>
    /\ UNCHANGED <<inbound, probe, answer, capture>>

\* Lines 383-400: the job of the type is submitted and the chat is told.
TapSubmit(t, u) ==
    /\ confirm.taps[t].pc = "submit"
    /\ queue' = queue \cup PhotoJobs(confirm.taps[t].row, confirm.taps[t].event_type)
    /\ confirm' = [confirm EXCEPT !.taps[t].pc = "done"]
    /\ inbound' = [inbound EXCEPT !.reply = "saved"]
    /\ UNCHANGED <<users, events, clock, pending_type, reminderVars>>
    /\ UNCHANGED <<jobs, summaries, pending_message, probe, answer, capture>>

Taps ==
    \E t \in TapIds, u \in ChatUsers :
       \/ TapType(t, u)
       \/ TapConsume(t, u)
       \/ TapStore(t, u)
       \/ TapCreate(t, u)
       \/ TapSubmit(t, u)

NextConfirm == (\E u \in ChatUsers : PhotoArrives(u)) \/ Taps

SpecConfirm == Init /\ [][NextConfirm]_vars

(***************************************************************************)
(* Properties of the confirmation (specification SpecConfirm).             *)
(***************************************************************************)
\* C38: a photo held as the pending message becomes at most one event: the
\* callback that takes the pending message removes it in the same step, no
\* two callbacks create an event for the same pending message, and there
\* are never more events than photos.
C38_PendingPhotoStoredOnce ==
    [][/\ \A t \in TapIds :
             (confirm.taps[t].pc = "consume" /\ confirm'.taps[t].pc = "store") =>
                /\ confirm'.taps[t].pending_msg = pending_message[101]
                /\ pending_message'[101] = NULL
       /\ \A t1, t2 \in TapIds :
             (/\ t1 # t2
              /\ confirm'.taps[t1].row # 0
              /\ confirm'.taps[t2].row # 0) =>
                confirm'.taps[t1].pending_msg # confirm'.taps[t2].pending_msg
       /\ Len(events') <= confirm'.photos
      ]_vars

\* Two taps were handled at once for one pending photo: the first has
\* created the photo's event, the second found no pending message.
C38_Witness ==
    /\ confirm.photos = 1
    /\ confirm.taps[1].pc = "done"
    /\ confirm.taps[1].row = 1
    /\ confirm.taps[1].pending_msg = "photo 1"
    /\ confirm.taps[2].pc = "done"
    /\ confirm.taps[2].event_type = "mindform"
    /\ confirm.taps[2].row = 0
    /\ Len(events) = 1
    /\ pending_message[101] = NULL

(***************************************************************************)
(* The window specification: is_time_in_range on times of day around the   *)
(* ends of the window, the turn of the hour and midnight.                  *)
(***************************************************************************)
CurrentTimes ==
    {TimeOfDay(h, m, sec) : h \in {0, 22, 23}, m \in {0, 4, 5, 58, 59}, sec \in {0, 59}}

TargetTimes ==
    {TimeOfDay(h, m, sec) : h \in {22, 23}, m \in {0, 58}, sec \in {0, 30}}

InitTime ==
    /\ users = <<>>
    /\ events = <<>>
    /\ queue = {}
    /\ jobs = [j \in JobIds |-> IdleJob]
    /\ summaries = [e \in 1..MaxEvents |-> 0]
    /\ pending_type = [u \in UserIds |-> NULL]
    /\ pending_message = [u \in UserIds |-> NULL]
    /\ clock = 1
    /\ ledger = <<>>
    /\ sweeps = [s \in SweepIds |-> IdleSweep]
    /\ sent = [k \in Keys |-> 0]
    /\ overlapped = FALSE
    /\ inbound = NoInbound
    /\ answer = NoAnswer
    /\ capture = NoCapture
    /\ confirm = NoConfirm
    /\ \E c \in CurrentTimes, t \in TargetTimes :
          probe = [NoProbe EXCEPT !.current_time = c, !.target_time = t]

\* reminders.py line 47: the call, with the window of the sweep.
CallIsTimeInRange ==
    /\ ~probe.called
    /\ probe' = [probe EXCEPT
                    !.called = TRUE,
                    !.due = is_time_in_range(probe.current_time, probe.target_time,
                                             WindowMinutes)]
    /\ UNCHANGED <<users, events, clock, pending_type, reminderVars, pipelineVars>>
    /\ UNCHANGED <<inbound, answer, capture, confirm>>

NextTime == CallIsTimeInRange

SpecTime == InitTime /\ [][NextTime]_vars

(***************************************************************************)
(* Properties of the window (specification SpecTime).                      *)
(***************************************************************************)
SecondsOfDay(t) == t.hour * 3600 + t.minute * 60 + t.second

\* The first second of the minute a time of day lies in.
MinuteStart(t) == SecondsOfDay(t) - t.second

\* C33: the window does not wrap past midnight: for a target time in the
\* last WindowMinutes minutes of the day a time of day is due exactly when it
\* lies in [target, 24:00); the times after 00:00 of the next day are not due
\* and the window is shorter than WindowMinutes.
C33_WindowEndsAtMidnight ==
    LET current_minutes == probe.current_time.hour * 60 + probe.current_time.minute
        target_minutes == probe.target_time.hour * 60 + probe.target_time.minute
    IN  (probe.called /\ target_minutes + WindowMinutes > 24 * 60) =>
           /\ probe.due <=> (target_minutes <= current_minutes)
           /\ current_minutes < target_minutes + WindowMinutes - 24 * 60 => ~probe.due
           /\ 24 * 60 - target_minutes < WindowMinutes

\* The call for 00:00:59 against a target of 23:58 has returned false: the
\* time is two minutes after the target and not due.
C33_Witness ==
    /\ probe.called
    /\ probe.target_time = TimeOfDay(23, 58, 0)
    /\ probe.current_time = TimeOfDay(0, 0, 59)
    /\ ~probe.due

\* C7: with a window of 5 minutes the result is true exactly when the
\* current time lies in the 300 seconds that begin with the target's minute,
\* whatever the seconds of the two times; for a target of 23:00 it is true
\* at 23:04:59 and false at 23:05:00.
C7_WindowIsHalfOpen ==
    probe.called =>
       /\ probe.due = (/\ MinuteStart(probe.target_time) <= SecondsOfDay(probe.current_time)
                       /\ SecondsOfDay(probe.current_time)
                             < MinuteStart(probe.target_time) + 300)
       /\ (/\ probe.target_time = TimeOfDay(23, 0, 0)
           /\ probe.current_time = TimeOfDay(23, 4, 59)) => probe.due = TRUE
       /\ (/\ probe.target_time = TimeOfDay(23, 0, 0)
           /\ probe.current_time = TimeOfDay(23, 5, 0)) => probe.due = FALSE

\* C7 witness: the call for 23:05:00 against a target of 23:00 has returned
\* false.
C7_Witness ==
    /\ probe.called
    /\ probe.target_time = TimeOfDay(23, 0, 0)
    /\ probe.current_time = TimeOfDay(23, 5, 0)
    /\ probe.due = FALSE

(***************************************************************************)
(* The classifier specification: classify_text_content and classify_image  *)
(* on the provider's possible responses.                                   *)
(***************************************************************************)
\* What the provider can answer: an error, text that is not JSON, a JSON
\* array, or a JSON object whose event_type is a word of either vocabulary,
\* some other string, or missing, with or without a confidence.
ProviderAnswers ==
    {ClassResp(tag, NULL, -1) : tag \in {"error", "nonjson", "list"}}
    \cup {ClassResp("obj", t, c) :
             t \in TextTypes \cup ImageTypes \cup {"Reflection", "bogus", "", NULL},
             c \in {-1, 30, 60, 90}}

InitClassify ==
    /\ users = <<>>
    /\ events = <<>>
    /\ queue = {}
    /\ jobs = [j \in JobIds |-> IdleJob]
    /\ summaries = [e \in 1..MaxEvents |-> 0]
    /\ pending_type = [u \in UserIds |-> NULL]
    /\ pending_message = [u \in UserIds |-> NULL]
    /\ clock = 1
    /\ ledger = <<>>
    /\ sweeps = [s \in SweepIds |-> IdleSweep]
    /\ sent = [k \in Keys |-> 0]
    /\ overlapped = FALSE
    /\ inbound = NoInbound
    /\ probe = NoProbe
    /\ capture = NoCapture
    /\ confirm = NoConfirm
    /\ \E op \in {"text", "image"}, c \in ProviderAnswers :
          answer = [NoAnswer EXCEPT !.op = op, !.resp = c]

CallClassifyText ==
    /\ ~answer.called
    /\ answer.op = "text"
    /\ answer' = [answer EXCEPT !.called = TRUE, !.out = classify_text_content(answer.resp)]
    /\ UNCHANGED <<users, events, clock, pending_type, reminderVars, pipelineVars>>
    /\ UNCHANGED <<inbound, probe, capture, confirm>>

CallClassifyImage ==
    /\ ~answer.called
    /\ answer.op = "image"
    /\ answer' = [answer EXCEPT !.called = TRUE, !.out = classify_image(answer.resp)]
    /\ UNCHANGED <<users, events, clock, pending_type, reminderVars, pipelineVars>>
    /\ UNCHANGED <<inbound, probe, capture, confirm>>

NextClassify == CallClassifyText \/ CallClassifyImage

SpecClassify == InitClassify /\ [][NextClassify]_vars

(***************************************************************************)
(* Properties of the classifiers (specification SpecClassify).             *)
(***************************************************************************)
\* C20: for every response of the provider, the type classify_text_content
\* returns is one of reflection, dream, mindform, drawing, other and the type
\* classify_image returns is one of mindform, face_photo, drawing, other; a
\* type of the provider outside the vocabulary becomes reflection for text
\* and other for an image, and a type inside it is returned as it is.
C20_TypeIsInVocabulary ==
    answer.called =>
        LET text == {"reflection", "dream", "mindform", "drawing", "other"}
            image == {"mindform", "face_photo", "drawing", "other"}
            vocabulary == IF answer.op = "text" THEN text ELSE image
            fallback == IF answer.op = "text" THEN "reflection" ELSE "other"
            given == answer.resp.event_type
        IN  /\ answer.out.event_type \in vocabulary
            /\ IF answer.resp.tag = "obj" /\ given \in vocabulary
               THEN answer.out.event_type = given
               ELSE answer.out.event_type = fallback

\* The provider called a text a face_photo, and the text classifier answered
\* reflection.
C20_Witness ==
    /\ answer.called
    /\ answer.op = "text"
    /\ answer.resp.tag = "obj"
    /\ answer.resp.event_type = "face_photo"
    /\ answer.out.event_type = "reflection"

====
